---- MODULE Spec2Model ----
(***************************************************************************)
(* A model of forktrace: the process-lineage model (process.cpp), the      *)
(* ptrace event driver (tracer.cpp), the two helper threads                *)
(* (forktrace.cpp) and the diagram layout (diagram.cpp).                   *)
(*                                                                         *)
(* The specifications that live here:                                      *)
(*   SpecProc  - notifications applied directly to Process nodes           *)
(*   SpecLog   - notifications applied to one node, the call recorded      *)
(*   SpecExec  - exec attempts with varying files and arguments            *)
(*   Spec      - the Tracer driven by step(), the reader thread            *)
(*               (notify_orphan), the signal thread (nuke) and the         *)
(*               tracees' behaviour as observed through wait(2)            *)
(*   SpecFair  - Spec with the fairness that the scheduler gives           *)
(*   SpecDiagram, SpecDiagramFair - trees recorded and then laid out by    *)
(*               Diagram::redraw (diagram.cpp)                             *)
(*   SpecDrawer - the Drawer (diagram.cpp) called as _draw_line calls it   *)
(*   SpecCalls  - step() with the wait4 and waitid calls of the tracees    *)
(*   SpecKill   - step() with their kill, execve, banned and fake calls    *)
(*   SpecCopy   - the tracee-memory helpers of ptrace.cpp                   *)
(*   SpecLinks  - forks and sent signals, laid out line by line            *)
(*   SpecFork   - step() with forks that fail or are interrupted           *)
(*   SpecStart  - Tracer::start and its loop up to the first exec          *)
(*   SpecJoin, SpecJoinFair - the helper threads and their cancellation    *)
(***************************************************************************)
EXTENDS Integers, Sequences, FiniteSets, TLC

VARIABLES
    procs,          \* Seq of Process nodes (process.hpp:46-56)
    thrown,         \* outcome of the last operation: "none" or an exception
    crashed,        \* the program was aborted (undefined behaviour hit)
    tracees,        \* Tracer::_tracees : pid -> Tracee, NoTracee when absent
    leaders,        \* Tracer::_leaders (key set)
    orphans,        \* Tracer::_orphans
    recycledPIDs,   \* Tracer::_recycledPIDs
    lock,           \* Tracer::_lock : the thread holding it, or "none"
    pc,             \* position of the driver thread inside step()
    stepRet,        \* what the last step() did: "none","true","false","threw"
    rpc,            \* position of the reader thread
    rpid,           \* the pid the reader thread has read
    pipe,           \* pids written by the reaper helper, not yet read
    os,             \* the kernel's view of each pid
    nuked,          \* nuke() has sent SIGKILL to the leaders' groups
    errPid,         \* pid() of the BadTraceError step() last threw, or 0
    call,           \* the notification last applied to a node, with its arguments
    diagram,        \* the Diagram being built for the first leader (diagram.hpp)
    bg              \* gDone, the signals and the pipe's flag that end the
                    \* background threads, and the sigwait thread's position

vars == <<procs, thrown, crashed, tracees, leaders, orphans, recycledPIDs,
          lock, pc, stepRet, rpc, rpid, pipe, os, nuked, errPid, call,
          diagram, bg>>

tracerVars == <<tracees, leaders, orphans, recycledPIDs, lock, pc, stepRet,
                rpc, rpid, pipe, os, nuked, errPid, bg>>

(***************************************************************************)
(* Bounds                                                                  *)
(***************************************************************************)
MaxProcs == 2       \* Process nodes ever created
MaxLog == 3         \* events in one log (guards the appending inputs)
MaxEvents == 4      \* events in all logs together
MaxCalls == 2       \* attempts merged into one ExecEvent
MaxPid == 2         \* pids the kernel hands out are 1..MaxPid
MaxTracees == 4     \* Process nodes the tracer ever creates
MaxWaits == 1       \* wait4 calls the tracees start
MaxSignals == 1     \* signals delivered to the tracees
MaxTreeProcs == 3   \* Process nodes of the trees that are drawn
MaxTreeEvents == 5  \* events in all logs of the trees that are drawn
MaxLines == 12      \* lines of a diagram that are counted

(***************************************************************************)
(* Program constants                                                       *)
(***************************************************************************)
ERESTARTSYS == 512
ECHILD == 10
SIGKILL == 9
SIGTERM == 15
SIGTTIN == 21
SIGWINCH == 28
SYSCALL_NONE == -1
SYSCALL_WAIT4 == 61
SYSCALL_FORK == 57
SHOW_EXECS == 1
SHOW_FAILED_EXECS == 2
SHOW_NON_FATAL_SIGNALS == 4
SHOW_SIGNAL_SENDS == 8
DEFAULT_OPTS == SHOW_EXECS + SHOW_SIGNAL_SENDS

ALIVE == "ALIVE"
ZOMBIE == "ZOMBIE"
REAPED == "REAPED"
ORPHANED == "ORPHANED"

NoLoc == 0

(***************************************************************************)
(* Events (event.hpp).  One record shape for every variant.                *)
(***************************************************************************)
BaseEvent ==
    [type |-> "None", child |-> 0, waitedId |-> 0, nohang |-> FALSE,
     error |-> 0, calls |-> <<>>, args |-> 0, killedId |-> 0, signal |-> 0,
     toThread |-> FALSE, sender |-> FALSE, source |-> 0, dest |-> 0,
     origin |-> 0, killed |-> FALSE, status |-> 0, location |-> NoLoc]

ForkEvent(c) == [BaseEvent EXCEPT !.type = "Fork", !.child = c]

WaitEvent(w, nh) == [BaseEvent EXCEPT !.type = "Wait", !.waitedId = w,
                                      !.nohang = nh]

\* The ReapEvent contains the WaitEvent and steals its location.
\* A ReapEvent built without the WaitEvent it replaces.
ReapEvent_bare(wait, c) == [BaseEvent EXCEPT !.type = "Reap", !.child = c]
ReapEvent(wait, c) == [wait EXCEPT !.type = "Reap", !.child = c]

RaiseEvent(id, sig, tt) == [BaseEvent EXCEPT !.type = "Raise",
                               !.killedId = id, !.signal = sig,
                               !.toThread = tt]

KillEvent(src, dst, sig, tt, snd) ==
    [BaseEvent EXCEPT !.type = "Kill", !.source = src, !.dest = dst,
                      !.signal = sig, !.toThread = tt, !.sender = snd]

SignalEvent(org, sig, k) == [BaseEvent EXCEPT !.type = "Signal",
                               !.origin = org, !.signal = sig, !.killed = k]

ExitEvent(st) == [BaseEvent EXCEPT !.type = "Exit", !.status = st]

ExecEvent(file, args, err) ==
    [BaseEvent EXCEPT !.type = "Exec", !.calls = <<[file |-> file,
                                                     errcode |-> err]>>,
                      !.args = args]

\* What a slot of the vector holds after the swap through a dangling
\* reference (process.cpp:300-303) read a moved-from or overwritten slot.
InvalidEvent == [BaseEvent EXCEPT !.type = "Invalid"]

succeeded(ev) == ev.calls[Len(ev.calls)].errcode = 0

\* get_base_name: files are <<directory, base>> pairs.
get_base_name(file) == file[2]

(***************************************************************************)
(* Process (process.hpp, process.cpp).  Operators take the node table P    *)
(* and return [P |-> the table afterwards, err |-> "ok", an exception or   *)
(* "UB"].                                                                  *)
(***************************************************************************)
Process(pid, parent) ==
    [pid |-> pid, parent |-> parent, state |-> ALIVE, killed |-> FALSE,
     events |-> <<>>, location |-> NoLoc, cap |-> 0]

Ok(P) == [P |-> P, err |-> "ok"]
Throw(P) == [P |-> P, err |-> "ProcessTreeError"]
Undefined(P) == [P |-> P, err |-> "UB"]

dead(p) == p.state # ALIVE

\* std::vector growth on push_back: reallocates when size = capacity.
Grow(cap, size) == IF size < cap THEN cap ELSE IF cap = 0 THEN 1 ELSE 2 * cap

push_back(p, ev) == [p EXCEPT !.events = Append(@, ev),
                              !.cap = Grow(p.cap, Len(p.events))]

\* add_event without its state check.
add_event_any_state(P, n, ev, consumeLocation) ==
    IF P[n].location # NoLoc /\ consumeLocation
    THEN Ok([P EXCEPT ![n] = [push_back(P[n],
                                 [ev EXCEPT !.location = P[n].location])
                              EXCEPT !.location = NoLoc]])
    ELSE Ok([P EXCEPT ![n] = push_back(P[n], ev)])

add_event(P, n, ev, consumeLocation) ==
    IF P[n].state # ALIVE
    THEN Throw(P)
    ELSE IF P[n].location # NoLoc /\ consumeLocation
    THEN Ok([P EXCEPT ![n] = [push_back(P[n],
                                 [ev EXCEPT !.location = P[n].location])
                              EXCEPT !.location = NoLoc]])
    ELSE Ok([P EXCEPT ![n] = push_back(P[n], ev)])

\* Index of the last WaitEvent of a log, 0 when there is none.
LastWait(evs) ==
    LET S == {i \in 1..Len(evs) : evs[i].type = "Wait"}
    IN IF S = {} THEN 0 ELSE CHOOSE i \in S : \A j \in S : j <= i

\* notify_waiting whose WaitEvent does not take the source location.
notify_waiting_keeps_location(P, n, waitedId, nohang) ==
    LET evs == P[n].events
        last == evs[Len(evs)]
    IN IF Len(evs) > 0 /\ last.type = "Wait" /\ last.error = ERESTARTSYS
       THEN IF last.waitedId = waitedId /\ last.nohang = nohang
            THEN Ok([P EXCEPT ![n].events[Len(evs)].error = 0])
            ELSE Throw(P)
       ELSE add_event(P, n, WaitEvent(waitedId, nohang), FALSE)

\* notify_waiting without the merge of a restarted wait.
notify_waiting_always_adds(P, n, waitedId, nohang) ==
    add_event(P, n, WaitEvent(waitedId, nohang), TRUE)

notify_waiting(P, n, waitedId, nohang) ==
    LET evs == P[n].events
        last == evs[Len(evs)]
    IN IF Len(evs) > 0 /\ last.type = "Wait" /\ last.error = ERESTARTSYS
       THEN IF last.waitedId = waitedId /\ last.nohang = nohang
            THEN Ok([P EXCEPT ![n].events[Len(evs)].error = 0])
            ELSE Throw(P)
       ELSE add_event(P, n, WaitEvent(waitedId, nohang), TRUE)

\* The backwards search uses an unsigned index with the test i >= 0: when
\* no WaitEvent is found the index wraps and _events[i] is read out of
\* bounds.
notify_failed_wait(P, n, error) ==
    LET i == LastWait(P[n].events)
    IN IF i = 0 THEN Undefined(P)
       ELSE IF P[n].events[i].error # 0 THEN Throw(P)
       ELSE Ok([P EXCEPT ![n].events[i].error = error])

notify_reaped(P, n, c) ==
    IF P[c].state # ZOMBIE THEN Throw(P)
    ELSE LET Q == [P EXCEPT ![c].state = REAPED]
             i == LastWait(Q[n].events)
         IN IF i = 0 THEN Undefined(Q)
            ELSE IF Q[n].events[i].error # 0 THEN Throw(Q)
            ELSE Ok([Q EXCEPT ![n].events[i] = ReapEvent(Q[n].events[i], c)])

notify_forked(P, n, c) == add_event(P, n, ForkEvent(c), TRUE)

\* notify_exec that records every attempt as an event of its own.
notify_exec_never_merges(P, n, file, args, errcode) ==
    add_event(P, n, ExecEvent(file, args, errcode), TRUE)

notify_exec(P, n, file, args, errcode) ==
    LET evs == P[n].events
        event == evs[Len(evs)]
    IN IF Len(evs) = 0
       THEN add_event(P, n, ExecEvent(file, args, errcode), TRUE)
       ELSE IF event.type # "Exec" \/ succeeded(event) \/ event.args # args
       THEN add_event(P, n, ExecEvent(file, args, errcode), TRUE)
       ELSE IF get_base_name(file)
                 # get_base_name(event.calls[Len(event.calls)].file)
       THEN add_event(P, n, ExecEvent(file, args, errcode), TRUE)
       ELSE Ok([P EXCEPT ![n].events[Len(evs)].calls =
                   Append(@, [file |-> file, errcode |-> errcode])])

\* status is [exited |-> BOOLEAN, code |-> exit status or signal].
notify_ended(P, n, status) ==
    LET evs == P[n].events
        event == evs[Len(evs)]
    IN IF status.exited
       THEN LET r == add_event(P, n, ExitEvent(status.code), FALSE)
            IN IF r.err # "ok" THEN r
               ELSE Ok([r.P EXCEPT ![n].state = ZOMBIE])
       ELSE IF Len(evs) > 0 /\ event.type = "Signal"
               /\ event.signal = status.code
       THEN Ok([P EXCEPT ![n].killed = TRUE,
                         ![n].events[Len(evs)].killed = TRUE,
                         ![n].state = ZOMBIE])
       ELSE LET r == add_event(P, n, SignalEvent(-1, status.code, TRUE),
                               FALSE)
            IN IF r.err # "ok" THEN r
               ELSE Ok([r.P EXCEPT ![n].state = ZOMBIE, ![n].killed = TRUE])

notify_signaled(P, n, sender, signal) ==
    add_event(P, n, SignalEvent(sender, signal, FALSE), FALSE)

\* The receiver's side of notify_sent_signal when the receiver is dead
\* (process.cpp:297-304).  deathEvent is a reference taken before the
\* push_back; when the push_back reallocates, the swap goes through a
\* dangling reference: err = "UB" and the caller picks the outcome.
InsertBeforeDeath(p, kill) ==
    LET n == Len(p.events)
    IN [p EXCEPT !.events = SubSeq(@, 1, n - 1) \o <<kill, p.events[n]>>,
                 !.cap = Grow(p.cap, n)]

\* Outcomes of the swap through the dangling reference: the new last slot
\* receives what the freed slot held (a moved-from null or overwritten
\* bytes, or the stale pointer to the death event).
DanglingSwapOutcomes(p, kill) ==
    LET n == Len(p.events)
        q == [p EXCEPT !.cap = Grow(p.cap, n)]
    IN {[q EXCEPT !.events = Append(p.events, InvalidEvent)],
        [q EXCEPT !.events = Append(p.events, p.events[n])]}

notify_sent_signal(P, killedId, src, dst, signal, toThread) ==
    IF dst # 0 /\ dst # src /\ P[dst].pid = killedId
    THEN LET r == add_event(P, src,
                      KillEvent(src, dst, signal, toThread, TRUE), TRUE)
             k == KillEvent(src, dst, signal, toThread, FALSE)
         IN IF r.err # "ok" THEN r
            ELSE IF dead(r.P[dst])
            THEN IF Len(r.P[dst].events) = r.P[dst].cap
                 THEN Undefined(r.P)
                 ELSE Ok([r.P EXCEPT ![dst] = InsertBeforeDeath(r.P[dst], k)])
            ELSE Ok([r.P EXCEPT ![dst] = push_back(r.P[dst], k)])
    ELSE add_event(P, src, RaiseEvent(killedId, signal, toThread), TRUE)

\* notify_orphaned without its process_assert.
notify_orphaned_any(P, n) == Ok([P EXCEPT ![n].state = ORPHANED])

notify_orphaned(P, n) ==
    IF P[n].state # ZOMBIE THEN Throw(P)
    ELSE Ok([P EXCEPT ![n].state = ORPHANED])

update_location(P, n, location) == [P EXCEPT ![n].location = location]

(***************************************************************************)
(* SpecProc: any sequence of notifications applied to Process nodes.       *)
(***************************************************************************)
WaitIds == {-1}
WaitNoHang == {FALSE}
WaitErrors == {ERESTARTSYS, ECHILD}
Signals == {SIGTERM, SIGKILL}   \* signals a process may die of
SentSignals == {SIGTERM}        \* signals sent and delivered
ExitCodes == {0}
Files == {<<"a", "x">>}
Args == {1}
ExecErrors == {0, 2}

Nodes == 1..Len(procs)

Statuses == [exited : {TRUE}, code : ExitCodes]
              \cup [exited : {FALSE}, code : Signals]

RECURSIVE TotalEvents(_, _)
TotalEvents(P, n) == IF n = 0 THEN 0
                     ELSE Len(P[n].events) + TotalEvents(P, n - 1)

Room(n) == /\ Len(procs[n].events) < MaxLog
           /\ TotalEvents(procs, Len(procs)) < MaxEvents

\* What the caller observes of an operation's result.  Undefined behaviour
\* is a choice among the outcomes in ub (each a node table and whether the
\* program survives it by throwing) or an abort of the program.
Apply(r, ub) ==
    \/ /\ r.err = "ok"
       /\ procs' = r.P /\ thrown' = "none" /\ crashed' = FALSE
    \/ /\ r.err = "ProcessTreeError"
       /\ procs' = r.P /\ thrown' = "ProcessTreeError" /\ crashed' = FALSE
    \/ /\ r.err = "UB"
       /\ \/ procs' = r.P /\ thrown' = "none" /\ crashed' = TRUE
          \/ \E o \in ub : procs' = o.P /\ thrown' = o.thrown
                              /\ crashed' = FALSE

\* The unsigned search that wraps around (process.cpp:125, 147) either
\* faults or leaves the loop through the process_assert under it.
WrapOutcomes(r) == {[P |-> r.P, thrown |-> "ProcessTreeError"]}

P_notify_forked ==
    /\ ~crashed /\ Len(procs) < MaxProcs
    /\ \E n \in Nodes :
         /\ Room(n)
         /\ LET c == Len(procs) + 1
                Q == Append(procs, Process(c, n))
            IN Apply(notify_forked(Q, n, c), {})
    /\ UNCHANGED <<tracerVars, call, diagram>>

P_notify_waiting ==
    /\ ~crashed
    /\ \E n \in Nodes, w \in WaitIds, nh \in WaitNoHang :
         /\ Room(n)
         /\ Apply(notify_waiting(procs, n, w, nh), {})
    /\ UNCHANGED <<tracerVars, call, diagram>>

P_notify_failed_wait ==
    /\ ~crashed
    /\ \E n \in Nodes, e \in WaitErrors :
         LET r == notify_failed_wait(procs, n, e)
         IN Apply(r, WrapOutcomes(r))
    /\ UNCHANGED <<tracerVars, call, diagram>>

P_notify_reaped ==
    /\ ~crashed
    /\ \E n \in Nodes, c \in Nodes :
         /\ c # n
         /\ LET r == notify_reaped(procs, n, c)
            IN Apply(r, WrapOutcomes(r))
    /\ UNCHANGED <<tracerVars, call, diagram>>

P_notify_exec ==
    /\ ~crashed
    /\ \E n \in Nodes, f \in Files, a \in Args, e \in ExecErrors :
         /\ Room(n)
         /\ Len(procs[n].events) > 0 =>
              Len(procs[n].events[Len(procs[n].events)].calls) < MaxCalls
         /\ Apply(notify_exec(procs, n, f, a, e), {})
    /\ UNCHANGED <<tracerVars, call, diagram>>

P_notify_ended ==
    /\ ~crashed
    /\ \E n \in Nodes, st \in Statuses :
         /\ Room(n)
         /\ Apply(notify_ended(procs, n, st), {})
    /\ UNCHANGED <<tracerVars, call, diagram>>

P_notify_signaled ==
    /\ ~crashed
    /\ \E n \in Nodes, sig \in SentSignals :
         /\ Room(n)
         /\ Apply(notify_signaled(procs, n, 0, sig), {})
    /\ UNCHANGED <<tracerVars, call, diagram>>

\* dst = 0 stands for the null pointer; the killed id is then no node's pid.
P_notify_sent_signal ==
    /\ ~crashed
    /\ \E src \in Nodes, dst \in Nodes \cup {0}, sig \in SentSignals :
         /\ Room(src)
         /\ dst # 0 => /\ Len(procs[dst].events) < MaxLog
                       /\ TotalEvents(procs, Len(procs)) + 1 < MaxEvents
         /\ LET id == IF dst = 0 THEN 0 ELSE procs[dst].pid
                r == notify_sent_signal(procs, id, src, dst, sig, FALSE)
                k == KillEvent(src, dst, sig, FALSE, FALSE)
            IN Apply(r, {[P |-> [r.P EXCEPT ![dst] = o], thrown |-> "none"] :
                            o \in DanglingSwapOutcomes(r.P[dst], k)})
    /\ UNCHANGED <<tracerVars, call, diagram>>

P_notify_orphaned ==
    /\ ~crashed
    /\ \E n \in Nodes : Apply(notify_orphaned(procs, n), {})
    /\ UNCHANGED <<tracerVars, call, diagram>>

\* The members of a WaitCall (tracer.cpp:128-133): _result is "null" or the
\* region of the tracee's memory it points to, _oldData is null (saved =
\* FALSE) or holds the bytes saved from there.  kind is "none" when
\* blockingCall is null.
NoWaitCall == [kind |-> "none", waitedId |-> 0, nohang |-> FALSE,
               result |-> "null", saved |-> FALSE, oldData |-> <<>>]

NoTracee == [pid |-> 0, state |-> "NONE", syscall |-> SYSCALL_NONE,
             signal |-> 0, blockingCall |-> FALSE, process |-> 0,
             wait |-> NoWaitCall]

\* No notification has been applied yet.
NoCall == [op |-> "none", n |-> 0, arg |-> <<>>]

\* Drawer::Drawer(lane_width); _win is kept as its width alone.
Drawer(lane_width) ==
    [laneWidth |-> lane_width, xExtent |-> 0, x |-> 0, y |-> 0,
     truncated |-> FALSE, width |-> 0]

\* No Drawer object exists.
NoDrawer == Drawer(0)

\* No Diagram object exists.
NoDiagram == [pc |-> "idle", options |-> 0, leader |-> 0, numLines |-> 0,
              line |-> <<>>, paths |-> <<>>, laneCount |-> 0,
              renderer |-> NoDrawer]

\* A pid the kernel has not handed out.
\* sys is the system call the process is inside, args what it passed to a
\* wait call, rptr the register that holds the call's result pointer and
\* mem the two regions of its memory a wait call's result can go to.
NoArgs == [idtype |-> 0, id |-> 0, nohang |-> FALSE]
NoMem == [scratch |-> <<>>, user |-> <<>>]
FreeSlot == [st |-> "free", par |-> 0, pg |-> 0, ret |-> 0, intr |-> "none",
             sys |-> SYSCALL_NONE, args |-> NoArgs, rptr |-> "null",
             mem |-> NoMem]

\* forktrace() before run() returns (forktrace.cpp:717-754): gDone is
\* false, SIGINT is blocked and none is pending, the pipe's descriptor
\* blocks, and the sigwait thread is in sigwait.
NoThreads == [gDone |-> FALSE, SIGINT |-> FALSE, SIGUSR1 |-> FALSE,
              O_NONBLOCK |-> FALSE, sigwaiter |-> "sigwait",
              main |-> "run", saw |-> {}]

InitTracer ==
    /\ tracees = [p \in 1..MaxPid |-> NoTracee]
    /\ leaders = {}
    /\ orphans = <<>>
    /\ recycledPIDs = <<>>
    /\ lock = "none"
    /\ pc = "idle"
    /\ stepRet = "none"
    /\ rpc = "read"
    /\ rpid = 0
    /\ pipe = <<>>
    /\ os = [p \in 1..MaxPid |-> FreeSlot]
    /\ nuked = FALSE
    /\ errPid = 0
    /\ call = NoCall
    /\ diagram = NoDiagram
    /\ bg = NoThreads

InitProc ==
    /\ procs = <<Process(1, 0)>>
    /\ thrown = "none"
    /\ crashed = FALSE
    /\ InitTracer

NextProc ==
    \/ P_notify_forked
    \/ P_notify_waiting
    \/ P_notify_failed_wait
    \/ P_notify_reaped
    \/ P_notify_exec
    \/ P_notify_ended
    \/ P_notify_signaled
    \/ P_notify_sent_signal
    \/ P_notify_orphaned

SpecProc == InitProc /\ [][NextProc]_vars

(***************************************************************************)
(* The tracer (tracer.cpp).  Handlers are operators on a record S holding  *)
(* the members they touch: T = _tracees, L = _leaders, Q = _orphans,       *)
(* R = _recycledPIDs, P = the Process nodes, err/pid = the exception in    *)
(* flight.                                                                 *)
(***************************************************************************)
Pids == 1..MaxPid

Tracee(pid, process) ==
    [pid |-> pid, state |-> "STOPPED", syscall |-> SYSCALL_NONE,
     signal |-> 0, blockingCall |-> FALSE, process |-> process,
     wait |-> NoWaitCall]

InMap(T, p) == T[p].state # "NONE"

empty(T) == \A p \in Pids : ~InMap(T, p)

InSeq(x, s) == \E i \in 1..Len(s) : s[i] = x

\* std::find followed by erase: the first match only.
RemoveFirst(s, x) ==
    LET i == CHOOSE j \in 1..Len(s) :
                 s[j] = x /\ \A k \in 1..(j - 1) : s[k] # x
    IN  SubSeq(s, 1, i - 1) \o SubSeq(s, i + 1, Len(s))

BadTraceError(S, p) == [S EXCEPT !.err = "BadTraceError", !.pid = p]

\* resume that leaves the pending signal in the Tracee.
resume_keeps_signal(t) == IF t.state # "STOPPED" THEN t
                          ELSE [t EXCEPT !.state = "RUNNING"]
resume(t) == IF t.state # "STOPPED" THEN t
             ELSE [t EXCEPT !.signal = 0, !.state = "RUNNING"]

are_tracees_running(T) == \E p \in Pids : T[p].state = "RUNNING"

all_tracees_dead(T) == \A p \in Pids : InMap(T, p) => T[p].state = "DEAD"

\* add_tracee that forgets to note the reused pid.
add_tracee_silent(S, pid, process) ==
    [S EXCEPT !.T[pid] = Tracee(pid, process)]

add_tracee(S, pid, process) ==
    IF InMap(S.T, pid)
    THEN [S EXCEPT !.T[pid] = Tracee(pid, process),
                   !.R = Append(@, pid)]
    ELSE [S EXCEPT !.T[pid] = Tracee(pid, process)]

erase(S, pid) == [S EXCEPT !.T[pid] = NoTracee]

RECURSIVE collect_orphans(_)
collect_orphans(S) ==
    IF S.Q = <<>> THEN S
    ELSE LET pid == Head(S.Q)
             S1 == [S EXCEPT !.Q = Tail(@)]
         IN  IF InSeq(pid, S1.R)
             THEN collect_orphans([S1 EXCEPT !.R = RemoveFirst(@, pid)])
             ELSE IF ~InMap(S1.T, pid)
             THEN collect_orphans(S1)
             ELSE IF S1.T[pid].state # "DEAD"
             THEN BadTraceError(S1, pid)
             ELSE LET r == notify_orphaned(S1.P, S1.T[pid].process)
                  IN  IF r.err # "ok" THEN [S1 EXCEPT !.err = r.err]
                      ELSE collect_orphans(erase([S1 EXCEPT !.P = r.P], pid))

\* WaitCall::on_success without the erase.
on_success_keep(S, p, c) ==
    IF ~InMap(S.T, c) THEN BadTraceError(S, p)
    ELSE IF S.T[c].state # "DEAD" THEN BadTraceError(S, p)
    ELSE LET r == notify_reaped(S.P, S.T[p].process, S.T[c].process)
         IN  [S EXCEPT !.P = r.P, !.err = r.err]

on_success(S, p, c) ==
    IF ~InMap(S.T, c) THEN BadTraceError(S, p)
    ELSE IF S.T[c].state # "DEAD" THEN BadTraceError(S, p)
    ELSE LET r == notify_reaped(S.P, S.T[p].process, S.T[c].process)
         IN  IF r.err # "ok" THEN [S EXCEPT !.P = r.P, !.err = r.err]
             ELSE erase([S EXCEPT !.P = r.P], c)

on_failure(S, p, error) ==
    LET r == notify_failed_wait(S.P, S.T[p].process, error)
    IN  [S EXCEPT !.P = r.P, !.err = r.err]

\* Wait4Call::finalise: retval is the reaped pid, 0 for -ECHILD, or the
\* negated error.
finalise(S, p, retval) ==
    IF retval = 0 THEN on_failure(S, p, ECHILD)
    ELSE IF retval < 0 THEN on_failure(S, p, -retval)
    ELSE on_success(S, p, retval)

handle_syscall_exit(S, p, retval) ==
    LET S1 == IF S.T[p].blockingCall THEN finalise(S, p, retval) ELSE S
    IN  IF S1.err # "ok" THEN S1
        ELSE [S1 EXCEPT !.T[p] = [resume([@ EXCEPT !.blockingCall = FALSE])
                                     EXCEPT !.syscall = SYSCALL_NONE]]

initiate_wait(S, p) ==
    LET r == notify_waiting(S.P, S.T[p].process, -1, FALSE)
    IN  IF r.err # "ok" THEN [S EXCEPT !.P = r.P, !.err = r.err]
        ELSE [S EXCEPT !.P = r.P, !.T[p].blockingCall = TRUE]

\* The fork that succeeds: the child c is attached stopped, the parent is
\* taken to its syscall-exit-stop and left there.
handle_fork(S, p, c) ==
    LET n == Len(S.P) + 1
        S1 == [S EXCEPT !.P = Append(@, Process(c, S.T[p].process))]
        S2 == add_tracee(S1, c, n)
        r == notify_forked(S2.P, S2.T[p].process, n)
    IN  IF r.err # "ok" THEN [S2 EXCEPT !.P = r.P, !.err = r.err]
        ELSE [S2 EXCEPT !.P = r.P, !.T[p].state = "STOPPED",
                        !.T[p].syscall = SYSCALL_NONE]

handle_syscall_entry(S, p, syscall, c) ==
    LET S1 == [S EXCEPT !.T[p].syscall = syscall]
    IN  IF syscall = SYSCALL_FORK THEN handle_fork(S1, p, c)
        ELSE initiate_wait(S1, p)

\* handle_signal_stop that records no SignalEvent.
handle_signal_stop_unrecorded(S, p, signal) ==
    IF S.T[p].signal # 0 \/ signal = SIGTTIN THEN BadTraceError(S, p)
    ELSE [S EXCEPT !.T[p].signal = signal]

handle_signal_stop(S, p, signal) ==
    IF S.T[p].signal # 0 \/ signal = SIGTTIN THEN BadTraceError(S, p)
    ELSE LET r == notify_signaled(S.P, S.T[p].process, -1, signal)
         IN  IF r.err # "ok" THEN [S EXCEPT !.P = r.P, !.err = r.err]
             ELSE [S EXCEPT !.P = r.P, !.T[p].signal = signal]

\* handle_wait_notification that keeps an ended leader like any tracee.
handle_ended_keep(S, p, status) ==
    IF S.T[p].state = "DEAD" THEN BadTraceError(S, p)
    ELSE LET r == notify_ended(S.P, S.T[p].process, status)
         IN  IF r.err # "ok" THEN [S EXCEPT !.P = r.P, !.err = r.err]
             ELSE [S EXCEPT !.P = r.P, !.T[p].state = "DEAD"]

\* handle_wait_notification for a status that reports the tracee's end.
handle_ended(S, p, status) ==
    IF S.T[p].state = "DEAD" THEN BadTraceError(S, p)
    ELSE LET r == notify_ended(S.P, S.T[p].process, status)
         IN  IF r.err # "ok" THEN [S EXCEPT !.P = r.P, !.err = r.err]
             ELSE IF p \in S.L THEN erase([S EXCEPT !.P = r.P], p)
             ELSE [S EXCEPT !.P = r.P, !.T[p].state = "DEAD"]

\* handle_wait_notification for a status that reports a stop; what the
\* stop is (note.kind) selects the branch of handle_stopped.
handle_stop(S, p, note) ==
    IF S.T[p].state = "DEAD" THEN BadTraceError(S, p)
    ELSE LET S1 == [S EXCEPT !.T[p].state = "STOPPED"]
         IN  IF note.kind = "signal" THEN handle_signal_stop(S1, p, note.arg)
             ELSE IF S1.T[p].syscall # SYSCALL_NONE
             THEN handle_syscall_exit(S1, p, note.arg)
             ELSE handle_syscall_entry(S1, p, note.syscall, note.arg)

\* The value step() returns when it leaves its loop (tracer.cpp:1101).
step_result_true(T) == "true"

step_result(T) == IF empty(T) THEN "false" ELSE "true"

(***************************************************************************)
(* The kernel as the tracer observes it.  os[p].st is "free", "live",      *)
(* "exited" or "killed" (ended, the tracer's wait() has not returned it    *)
(* yet) or "zombie" (ended and seen by the tracer, waiting for its         *)
(* parent).                                                                *)
(* par is the parent's pid, 0 for the tracer, -1 for the reaper process;   *)
(* pg is the process group; ret is the child a wait4 in progress has       *)
(* already collected.                                                      *)
(***************************************************************************)
\* A pid is handed out again only when no process and no group uses it.
Unused == {p \in Pids : /\ os[p].st = "free"
                        /\ \A q \in Pids : os[q].st = "free" \/ os[q].pg # p}

\* The pid the next fork gets: the lowest one unused.
FreePids == {p \in Unused : \A q \in Unused : p <= q}

\* The children of the processes in D are adopted by the reaper process.
Reparent(K, D) ==
    [p \in Pids |-> IF K[p].par \in D THEN [K[p] EXCEPT !.par = -1] ELSE K[p]]

Die(K, D, how) ==
    Reparent([p \in Pids |-> IF p \in D
                             THEN [K[p] EXCEPT !.st = how, !.intr = "none"]
                             ELSE K[p]], D)

\* The wait status of a process that has ended.
StatusOf(k) == IF k.st = "exited" THEN [exited |-> TRUE, code |-> 0]
               ELSE [exited |-> FALSE, code |-> SIGKILL]

\* What wait() leaves of a process whose end it has returned: the tracer's
\* own child is reaped by that wait, another's child stays a zombie.
Consumed(K, p) == IF K[p].par = 0 THEN [K EXCEPT ![p] = FreeSlot]
                  ELSE [K EXCEPT ![p].st = "zombie"]

RECURSIVE Count(_, _, _)
Count(P, n, types) ==
    IF n = 0 THEN 0
    ELSE Count(P, n - 1, types)
         + Cardinality({i \in 1..Len(P[n].events) :
                           /\ P[n].events[i].type \in types
                           /\ ~P[n].events[i].killed})

\* The tracees start a wait or stop for a signal only within the bounds.
WaitRoom(n) == /\ Len(procs[n].events) < MaxLog
               /\ Count(procs, Len(procs), {"Wait", "Reap"}) < MaxWaits

SignalRoom(n) == /\ Len(procs[n].events) < MaxLog
                 /\ Count(procs, Len(procs), {"Signal"}) < MaxSignals

ForkRoom(n) == Len(procs[n].events) < MaxLog

\* A wait4 is interrupted only while the signals recorded are within the
\* bound; the stops that follow the interruption are not held back.
IntrRoom == Count(procs, Len(procs), {"Signal"}) < MaxSignals

Here == [T |-> tracees, P |-> procs, L |-> leaders, Q |-> orphans,
         R |-> recycledPIDs, err |-> "ok", pid |-> 0]

Commit(S) ==
    /\ tracees' = S.T /\ procs' = S.P /\ leaders' = S.L /\ orphans' = S.Q
    /\ recycledPIDs' = S.R

\* An exception leaves the driver's call: the scoped_lock is released and
\* the caller in forktrace.cpp or command.cpp catches it.
Leave(S) ==
    /\ pc' = "idle" /\ lock' = "none" /\ stepRet' = "threw"
    /\ diagram' = diagram /\ bg' = bg
    /\ \/ /\ S.err = "BadTraceError"
          /\ thrown' = "BadTraceError" /\ errPid' = S.pid /\ crashed' = FALSE
       \/ /\ S.err = "ProcessTreeError"
          /\ thrown' = "ProcessTreeError" /\ errPid' = 0 /\ crashed' = FALSE
       \/ /\ S.err = "UB"
          /\ thrown' \in {"none", "ProcessTreeError"} /\ errPid' = 0
          /\ crashed' = (thrown' = "none")

Raise(S) == Leave(S) /\ call' = call

\* A step of the driver that throws nothing.
Calm == thrown' = "none" /\ errPid' = 0 /\ crashed' = FALSE
        /\ diagram' = diagram /\ bg' = bg

Quiet == Calm /\ call' = call

\* std::scoped_lock<std::mutex> guard(_lock), and one with no mutex behind
\* it.
acquire_nothing(who) == lock' \in {lock, who}

acquire(who) == lock = "none" /\ lock' = who

\* Tracer::start, for a program that execs at once.  Programs are started
\* one after the other: the next one when the tracees of the previous one
\* have all ended, and none after nuke().
Start ==
    /\ ~crashed /\ pc = "idle" /\ lock = "none" /\ ~nuked
    /\ all_tracees_dead(tracees)
    /\ Len(procs) < MaxTracees
    /\ \E pid \in FreePids, file \in Files, args \in Args :
         LET n == Len(procs) + 1
             S0 == [Here EXCEPT !.P = Append(@, Process(pid, 0)),
                                !.L = @ \cup {pid}]
             S1 == add_tracee(S0, pid, n)
             r == notify_exec(S1.P, n, file, args, 0)
         IN  /\ r.err = "ok"
             /\ Commit([S1 EXCEPT !.P = r.P])
             /\ os' = [os EXCEPT ![pid] = [FreeSlot EXCEPT
                                             !.st = "live", !.pg = pid]]
    /\ Quiet
    /\ UNCHANGED <<lock, pc, stepRet, rpc, rpid, pipe, nuked>>

Step_lock ==
    /\ ~crashed /\ pc = "idle"
    /\ acquire("driver") /\ pc' = "s_begin" /\ stepRet' = "none"
    /\ Quiet
    /\ UNCHANGED <<procs, tracees, leaders, orphans, recycledPIDs, rpc, rpid,
                   pipe, os, nuked>>

\* step() up to its wait(): tracer.cpp:1055-1073.
Step_begin ==
    /\ ~crashed /\ pc = "s_begin"
    /\ IF empty(tracees)
       THEN /\ pc' = "idle" /\ lock' = "none" /\ stepRet' = "false"
            /\ Quiet
            /\ UNCHANGED <<procs, tracees, leaders, orphans, recycledPIDs>>
       ELSE LET S == collect_orphans(
                       [Here EXCEPT !.T = [p \in Pids |-> resume(tracees[p])]])
            IN  /\ Commit(S)
                /\ IF S.err # "ok" THEN Raise(S)
                   ELSE /\ lock' = "none" /\ Quiet
                        /\ IF are_tracees_running(S.T)
                           THEN pc' = "s_wait" /\ stepRet' = stepRet
                           ELSE pc' = "idle" /\ stepRet' = step_result(S.T)
    /\ UNCHANGED <<rpc, rpid, pipe, os, nuked>>

\* After a handler ran on S: step() goes on to collect_orphans with the
\* lock held, or the exception leaves it.
Handled(S) ==
    /\ Commit(S)
    /\ IF S.err # "ok" THEN Raise(S)
       ELSE pc' = "s_collect" /\ lock' = "driver" /\ stepRet' = stepRet
            /\ Quiet

\* wait() returns the end of p.
Step_wait_ended ==
    /\ ~crashed /\ pc = "s_wait" /\ lock = "none"
    /\ \E p \in Pids :
         /\ os[p].st \in {"exited", "killed"} /\ InMap(tracees, p)
         /\ Handled(handle_ended(Here, p, StatusOf(os[p])))
         /\ os' = Consumed(os, p)
    /\ UNCHANGED <<rpc, rpid, pipe, nuked>>

\* wait() returns the syscall-entry-stop of a fork that creates c.
Step_wait_fork ==
    /\ ~crashed /\ pc = "s_wait" /\ lock = "none"
    /\ Len(procs) < MaxTracees
    /\ \E p \in Pids, c \in FreePids :
         /\ os[p].st = "live" /\ tracees[p].state = "RUNNING"
         /\ tracees[p].syscall = SYSCALL_NONE /\ os[p].intr = "none"
         /\ ForkRoom(tracees[p].process)
         /\ Handled(handle_stop(Here, p, [kind |-> "syscall", syscall |-> SYSCALL_FORK,
                                    arg |-> c]))
         /\ os' = [os EXCEPT ![c] = [FreeSlot EXCEPT
                                       !.st = "live", !.par = p,
                                       !.pg = os[p].pg,
                                       !.mem = os[p].mem]]
    /\ UNCHANGED <<rpc, rpid, pipe, nuked>>

\* wait() returns the syscall-entry-stop of wait4(-1, ..., 0).
Step_wait_wait4 ==
    /\ ~crashed /\ pc = "s_wait" /\ lock = "none"
    /\ \E p \in Pids :
         /\ os[p].st = "live" /\ tracees[p].state = "RUNNING"
         /\ tracees[p].syscall = SYSCALL_NONE /\ os[p].intr = "none"
         /\ WaitRoom(tracees[p].process)
         /\ Handled(handle_stop(Here, p, [kind |-> "syscall", syscall |-> SYSCALL_WAIT4,
                                    arg |-> 0]))
    /\ UNCHANGED <<rpc, rpid, pipe, os, nuked>>

\* wait() returns the syscall-exit-stop of a wait4 that has collected a
\* child, or that found no child to wait for.
Step_wait_exit ==
    /\ ~crashed /\ pc = "s_wait" /\ lock = "none"
    /\ \E p \in Pids :
         /\ os[p].st = "live" /\ tracees[p].state = "RUNNING"
         /\ tracees[p].syscall = SYSCALL_WAIT4
         /\ \/ os[p].ret # 0
            \/ \A c \in Pids : os[c].st = "free" \/ os[c].par # p
         /\ Handled(handle_stop(Here, p, [kind |-> "syscall", syscall |-> SYSCALL_NONE,
                                    arg |-> os[p].ret]))
         /\ os' = [os EXCEPT ![p].ret = 0]
    /\ UNCHANGED <<rpc, rpid, pipe, nuked>>

\* wait() returns a signal-delivery-stop.
Step_wait_signal ==
    /\ ~crashed /\ pc = "s_wait" /\ lock = "none"
    /\ \E p \in Pids, sig \in SentSignals \cup {SIGTTIN} :
         /\ os[p].st = "live" /\ tracees[p].state = "RUNNING"
         /\ tracees[p].syscall = SYSCALL_NONE /\ os[p].intr = "none"
         /\ sig = SIGTTIN \/ SignalRoom(tracees[p].process)
         /\ Handled(handle_stop(Here, p, [kind |-> "signal", syscall |-> SYSCALL_NONE,
                                    arg |-> sig]))
    /\ UNCHANGED <<rpc, rpid, pipe, os, nuked>>

\* A signal that the tracee ignores arrives while it is blocked in wait4:
\* the call returns -ERESTARTSYS and wait() returns its syscall-exit-stop.
Step_wait_interrupted ==
    /\ ~crashed /\ pc = "s_wait" /\ lock = "none"
    /\ \E p \in Pids :
         /\ os[p].st = "live" /\ tracees[p].state = "RUNNING"
         /\ tracees[p].syscall = SYSCALL_WAIT4 /\ os[p].ret = 0
         /\ \E c \in Pids : os[c].st # "free" /\ os[c].par = p
         /\ IntrRoom
         /\ Handled(handle_stop(Here, p, [kind |-> "syscall",
                      syscall |-> SYSCALL_NONE, arg |-> -ERESTARTSYS]))
         /\ os' = [os EXCEPT ![p].intr = "signal"]
    /\ UNCHANGED <<rpc, rpid, pipe, nuked>>

\* wait() returns the signal-delivery-stop of the signal that interrupted
\* the wait4.
Step_wait_interrupting ==
    /\ ~crashed /\ pc = "s_wait" /\ lock = "none"
    /\ \E p \in Pids :
         /\ os[p].st = "live" /\ tracees[p].state = "RUNNING"
         /\ os[p].intr = "signal"
         /\ Handled(handle_stop(Here, p, [kind |-> "signal",
                      syscall |-> SYSCALL_NONE, arg |-> SIGWINCH]))
         /\ os' = [os EXCEPT ![p].intr = "restart"]
    /\ UNCHANGED <<rpc, rpid, pipe, nuked>>

\* The ignored signal has been delivered and the kernel restarts the
\* wait4: wait() returns its syscall-entry-stop.
Step_wait_restarted ==
    /\ ~crashed /\ pc = "s_wait" /\ lock = "none"
    /\ \E p \in Pids :
         /\ os[p].st = "live" /\ tracees[p].state = "RUNNING"
         /\ os[p].intr = "restart"
         /\ Handled(handle_stop(Here, p, [kind |-> "syscall",
                      syscall |-> SYSCALL_WAIT4, arg |-> 0]))
         /\ os' = [os EXCEPT ![p].intr = "none"]
    /\ UNCHANGED <<rpc, rpid, pipe, nuked>>

\* The rest of the loop body: tracer.cpp:1089-1098.
Step_collect ==
    /\ ~crashed /\ pc = "s_collect"
    /\ LET S == collect_orphans(Here)
       IN  /\ Commit(S)
           /\ IF S.err # "ok" THEN Raise(S)
              ELSE /\ lock' = "none" /\ Quiet
                   /\ IF all_tracees_dead(S.T)
                      THEN pc' = "idle" /\ stepRet' = step_result(S.T)
                      ELSE IF ~are_tracees_running(S.T)
                      THEN pc' = "idle" /\ stepRet' = "true"
                      ELSE pc' = "s_wait" /\ stepRet' = stepRet
    /\ UNCHANGED <<rpc, rpid, pipe, os, nuked>>

\* Tracer::check_orphans, called by the command loop between commands.
\* With an empty queue the call changes nothing and is left out.
Check_lock ==
    /\ ~crashed /\ pc = "idle" /\ orphans # <<>>
    /\ acquire("driver") /\ pc' = "k_collect"
    /\ UNCHANGED <<procs, thrown, crashed, call, diagram, tracees, leaders, orphans,
                   recycledPIDs, stepRet, rpc, rpid, pipe, os, nuked, errPid, bg>>

Check_orphans ==
    /\ ~crashed /\ pc = "k_collect"
    /\ LET S == collect_orphans(Here)
       IN  /\ Commit(S)
           /\ IF S.err # "ok" THEN Raise(S)
              ELSE /\ lock' = "none" /\ pc' = "idle" /\ stepRet' = stepRet
                   /\ UNCHANGED <<thrown, crashed, call, diagram, errPid, bg>>
    /\ UNCHANGED <<rpc, rpid, pipe, os, nuked>>

\* reaper_thread (forktrace.cpp:103-118): read a pid, then notify_orphan.
R_read ==
    /\ ~crashed /\ rpc = "read" /\ pipe # <<>>
    /\ rpid' = Head(pipe) /\ pipe' = Tail(pipe) /\ rpc' = "lock"
    /\ UNCHANGED <<procs, thrown, crashed, call, diagram, tracees, leaders, orphans,
                   recycledPIDs, lock, pc, stepRet, os, nuked, errPid, bg>>

R_lock ==
    /\ ~crashed /\ rpc = "lock"
    /\ acquire("reader")
    /\ rpc' = "push"
    /\ UNCHANGED <<procs, thrown, crashed, call, diagram, tracees, leaders, orphans,
                   recycledPIDs, pc, stepRet, rpid, pipe, os, nuked, errPid, bg>>

R_push ==
    /\ ~crashed /\ rpc = "push"
    /\ orphans' = Append(orphans, rpid)
    /\ lock' = IF lock = "reader" THEN "none" ELSE lock
    /\ rpc' = "read"
    /\ UNCHANGED <<procs, thrown, crashed, call, diagram, tracees, leaders, recycledPIDs,
                   pc, stepRet, rpid, pipe, os, nuked, errPid, bg>>

\* signal_thread (forktrace.cpp:86-98) calls nuke() when a signal arrives;
\* one signal is sent.  nuke() takes and releases the mutex within the step.
Nuke ==
    /\ ~crashed /\ ~nuked /\ lock = "none"
    /\ nuked' = TRUE
    /\ os' = IF empty(tracees) THEN os
             ELSE Die(os, {q \in Pids : os[q].st = "live"
                                          /\ os[q].pg \in leaders}, "killed")
    /\ UNCHANGED <<procs, thrown, crashed, call, diagram, tracees, leaders, orphans,
                   recycledPIDs, lock, pc, stepRet, rpc, rpid, pipe, errPid, bg>>

\* A tracee running in user mode exits.
T_exit ==
    /\ ~crashed
    /\ \E p \in Pids :
         /\ os[p].st = "live" /\ tracees[p].state = "RUNNING"
         /\ tracees[p].syscall = SYSCALL_NONE /\ os[p].intr = "none"
         /\ os' = Die(os, {p}, "exited")
    /\ UNCHANGED <<procs, thrown, crashed, call, diagram, tracees, leaders, orphans,
                   recycledPIDs, lock, pc, stepRet, rpc, rpid, pipe, nuked,
                   errPid, bg>>

\* The wait4 a tracee is blocked in collects one of its zombie children.
K_wait ==
    /\ ~crashed
    /\ \E q \in Pids, c \in Pids :
         /\ os[q].st = "live" /\ tracees[q].state = "RUNNING"
         /\ tracees[q].syscall = SYSCALL_WAIT4 /\ os[q].ret = 0
         /\ os[c].st = "zombie" /\ os[c].par = q
         /\ os' = [os EXCEPT ![c] = FreeSlot, ![q].ret = c]
    /\ UNCHANGED <<procs, thrown, crashed, call, diagram, tracees, leaders, orphans,
                   recycledPIDs, lock, pc, stepRet, rpc, rpid, pipe, nuked,
                   errPid, bg>>

\* The reaper process collects a zombie it has adopted and writes its pid
\* to the pipe (reaper.cpp).
K_reaper ==
    /\ ~crashed
    /\ \E c \in Pids :
         /\ os[c].st = "zombie" /\ os[c].par = -1
         /\ os' = [os EXCEPT ![c] = FreeSlot]
         /\ pipe' = Append(pipe, c)
    /\ UNCHANGED <<procs, thrown, crashed, call, diagram, tracees, leaders, orphans,
                   recycledPIDs, lock, pc, stepRet, rpc, rpid, nuked, errPid, bg>>

Init ==
    /\ procs = <<>>
    /\ thrown = "none"
    /\ crashed = FALSE
    /\ InitTracer

Next ==
    \/ Start
    \/ Step_lock
    \/ Step_begin
    \/ Step_wait_ended
    \/ Step_wait_fork
    \/ Step_wait_wait4
    \/ Step_wait_exit
    \/ Step_wait_signal
    \/ Step_wait_interrupted
    \/ Step_wait_interrupting
    \/ Step_wait_restarted
    \/ Step_collect
    \/ Check_lock
    \/ Check_orphans
    \/ R_read
    \/ R_lock
    \/ R_push
    \/ Nuke
    \/ T_exit
    \/ K_wait
    \/ K_reaper

Spec == Init /\ [][Next]_vars

\* The driver keeps calling step() and check_orphans(), the helper thread
\* and the reaper process are scheduled, a wait4 with a zombie to collect
\* collects it, and a tracee running in user mode ends sooner or later.
\* A thread that keeps asking for the mutex gets it in the end, hence the
\* strong fairness of the steps that lock.  Nothing obliges anybody to
\* start a program or to send a signal.
Fairness ==
    /\ SF_vars(Step_lock) /\ WF_vars(Step_begin) /\ WF_vars(Step_collect)
    /\ SF_vars(Step_wait_ended) /\ SF_vars(Step_wait_exit)
    /\ SF_vars(Step_wait_interrupting) /\ SF_vars(Step_wait_restarted)
    /\ SF_vars(Check_lock) /\ WF_vars(Check_orphans)
    /\ WF_vars(R_read) /\ SF_vars(R_lock) /\ WF_vars(R_push)
    /\ WF_vars(T_exit) /\ WF_vars(K_wait) /\ WF_vars(K_reaper)

SpecFair == Spec /\ Fairness


(***************************************************************************)
(* SpecLog: the notifications applied to the first node of a tree, the     *)
(* call recorded, the source location updated by the tracee's forktrace.h  *)
(* hooks in between.  Its children only end and receive signals.           *)
(***************************************************************************)
LogNoHang == {FALSE, TRUE}
LogWaitErrors == {ERESTARTSYS, ECHILD}
LogStatuses == {[exited |-> TRUE, code |-> 0],
                [exited |-> FALSE, code |-> SIGTERM]}
Locations == {1}

Note(op, n, arg) == call' = [op |-> op, n |-> n, arg |-> arg]

L_notify_forked ==
    /\ ~crashed /\ Len(procs) < MaxProcs /\ Room(1)
    /\ LET c == Len(procs) + 1
           Q == Append(procs, Process(c, 1))
       IN Apply(notify_forked(Q, 1, c), {}) /\ Note("notify_forked", 1, <<c>>)
    /\ UNCHANGED <<tracerVars, diagram>>

L_notify_waiting ==
    /\ ~crashed /\ Room(1)
    /\ \E w \in WaitIds, nh \in LogNoHang :
         /\ Apply(notify_waiting(procs, 1, w, nh), {})
         /\ Note("notify_waiting", 1, <<w, nh>>)
    /\ UNCHANGED <<tracerVars, diagram>>

L_notify_failed_wait ==
    /\ ~crashed
    /\ \E e \in LogWaitErrors :
         LET r == notify_failed_wait(procs, 1, e)
         IN Apply(r, WrapOutcomes(r)) /\ Note("notify_failed_wait", 1, <<e>>)
    /\ UNCHANGED <<tracerVars, diagram>>

L_notify_reaped ==
    /\ ~crashed
    /\ \E c \in Nodes \ {1} :
         LET r == notify_reaped(procs, 1, c)
         IN Apply(r, WrapOutcomes(r)) /\ Note("notify_reaped", 1, <<c>>)
    /\ UNCHANGED <<tracerVars, diagram>>

L_notify_exec ==
    /\ ~crashed /\ Room(1)
    /\ \E f \in Files, a \in Args, e \in ExecErrors :
         /\ Len(procs[1].events) > 0 =>
              Len(procs[1].events[Len(procs[1].events)].calls) < MaxCalls
         /\ Apply(notify_exec(procs, 1, f, a, e), {})
         /\ Note("notify_exec", 1, <<f, a, e>>)
    /\ UNCHANGED <<tracerVars, diagram>>

L_notify_ended ==
    /\ ~crashed
    /\ \E n \in Nodes, st \in LogStatuses :
         /\ Room(n)
         /\ Apply(notify_ended(procs, n, st), {})
         /\ Note("notify_ended", n, <<st>>)
    /\ UNCHANGED <<tracerVars, diagram>>

L_notify_signaled ==
    /\ ~crashed /\ Room(1)
    /\ \E sig \in SentSignals :
         /\ Apply(notify_signaled(procs, 1, 0, sig), {})
         /\ Note("notify_signaled", 1, <<sig>>)
    /\ UNCHANGED <<tracerVars, diagram>>

\* dst = 0 stands for the null pointer; the killed id is then no node's pid.
L_notify_sent_signal ==
    /\ ~crashed /\ Room(1)
    /\ \E dst \in (Nodes \ {1}) \cup {0}, sig \in SentSignals :
         /\ dst # 0 => /\ Len(procs[dst].events) < MaxLog
                       /\ TotalEvents(procs, Len(procs)) + 1 < MaxEvents
         /\ LET id == IF dst = 0 THEN 0 ELSE procs[dst].pid
                r == notify_sent_signal(procs, id, 1, dst, sig, FALSE)
                k == KillEvent(1, dst, sig, FALSE, FALSE)
            IN Apply(r, {[P |-> [r.P EXCEPT ![dst] = o], thrown |-> "none"] :
                            o \in DanglingSwapOutcomes(r.P[dst], k)})
         /\ Note("notify_sent_signal", 1, <<dst, sig>>)
    /\ UNCHANGED <<tracerVars, diagram>>

L_update_location ==
    /\ ~crashed
    /\ \E l \in Locations :
         /\ procs' = update_location(procs, 1, l)
         /\ Note("update_location", 1, <<l>>)
    /\ thrown' = "none"
    /\ UNCHANGED <<crashed, tracerVars, diagram>>

NextLog ==
    \/ L_notify_forked
    \/ L_notify_waiting
    \/ L_notify_failed_wait
    \/ L_notify_reaped
    \/ L_notify_exec
    \/ L_notify_ended
    \/ L_notify_signaled
    \/ L_notify_sent_signal
    \/ L_update_location

SpecLog == InitProc /\ [][NextLog]_vars


(***************************************************************************)
(* SpecExec: the exec attempts of one process, as execvp makes them along  *)
(* $PATH, with signals received in between.                                *)
(***************************************************************************)
ExecFiles == {<<"a", "x">>, <<"b", "x">>, <<"a", "y">>}
ExecArgs == {1, 2}

X_notify_exec ==
    /\ ~crashed /\ Room(1)
    /\ \E f \in ExecFiles, a \in ExecArgs, e \in ExecErrors :
         /\ Len(procs[1].events) > 0 =>
              Len(procs[1].events[Len(procs[1].events)].calls) < MaxCalls
         /\ Apply(notify_exec(procs, 1, f, a, e), {})
         /\ Note("notify_exec", 1, <<f, a, e>>)
    /\ UNCHANGED <<tracerVars, diagram>>

X_notify_signaled ==
    /\ ~crashed /\ Room(1)
    /\ \E sig \in SentSignals :
         /\ Apply(notify_signaled(procs, 1, 0, sig), {})
         /\ Note("notify_signaled", 1, <<sig>>)
    /\ UNCHANGED <<tracerVars, diagram>>

NextExec ==
    \/ X_notify_exec
    \/ X_notify_signaled

SpecExec == InitProc /\ [][NextExec]_vars


(***************************************************************************)
(* Diagram (diagram.hpp, diagram.cpp): the layout of one leader's tree.    *)
(* Event indices are 1-based and 0 stands for the source's -1 and for its  *)
(* null pointers; line numbers and lanes are 0-based as in the source.     *)
(* The builder's operators work on L = [paths, cur, eventEnd, bad]: the    *)
(* _paths map, the line being built, the process a connecting line ends    *)
(* on, and whether an assert() of the source was false.                    *)
(***************************************************************************)
Has(opts, bit) == (opts \div bit) % 2 = 1

Max(a, b) == IF a >= b THEN a ELSE b

\* Path::Path() and Path::Path(int startLine), diagram.hpp.
NoPath == [startLine |-> -1, endLine |-> -1, lane |-> -1, killPartner |-> 0]
Path(startLine) == [NoPath EXCEPT !.startLine = startLine]

\* _paths.find(&process) != _paths.end()
HasPath(paths, n) == paths[n].startLine >= 0

Node(process, event, next) ==
    [process |-> process, event |-> event, next |-> next]

\* Node::end_of_path
end_of_path(node) == procs[node.process].state # REAPED /\ node.next = 0

\* LinkEvent and its subclasses (event.hpp).
LinkEvent(ev) == ev.type \in {"Fork", "Reap", "Kill"}

linked_path(ev) ==
    IF ev.type = "Kill" THEN (IF ev.sender THEN ev.dest ELSE ev.source)
    ELSE ev.child

\* The filter of _get_next_event.
Hidden(ev) ==
    \/ ~Has(diagram.options, SHOW_EXECS) /\ ev.type = "Exec"
    \/ /\ ~Has(diagram.options, SHOW_FAILED_EXECS)
       /\ ev.type = "Exec" /\ ~succeeded(ev)
    \/ /\ ~Has(diagram.options, SHOW_NON_FATAL_SIGNALS)
       /\ ev.type = "Signal" /\ ~ev.killed
    \/ /\ ~Has(diagram.options, SHOW_SIGNAL_SENDS)
       /\ ev.type \in {"Kill", "Raise"}

get_next_event(L, n, start) ==
    LET S == {i \in start..Len(procs[n].events) : ~Hidden(procs[n].events[i])}
        i == IF S = {} THEN 0 ELSE CHOOSE k \in S : \A j \in S : k <= j
    IN  IF i # 0 /\ procs[n].events[i].type = "Kill"
        THEN [next |-> i,
              L |-> [L EXCEPT
                       !.bad = @ \/ ~HasPath(L.paths, n)
                                 \/ L.paths[n].killPartner # 0,
                       !.killBad = @ \/ L.paths[n].killPartner # 0,
                       !.paths[n].killPartner =
                            linked_path(procs[n].events[i])]]
        ELSE [next |-> i, L |-> L]

get_successor(L, prev) ==
    IF prev.next = 0
    THEN [node |-> Node(prev.process, 0, 0), L |-> L]
    ELSE LET g == get_next_event(L, prev.process, prev.next + 1)
         IN [node |-> Node(prev.process, prev.next, g.next), L |-> g.L]

continue_path(prev) == Node(prev.process, 0, prev.next)

start_path(L, n) ==
    LET g == get_next_event(L, n, 1)
    IN [node |-> Node(n, 0, g.next), L |-> g.L]

\* curLine.push_back(...)
Push(L, node) == [L EXCEPT !.cur = Append(@, node)]
PushNode(s) == Push(s.L, s.node)

path_ready_to_end(prevLine, n) ==
    LET S == {k \in 1..Len(prevLine) : prevLine[k].process = n}
    IN IF S = {} THEN FALSE
       ELSE prevLine[CHOOSE k \in S : \A j \in S : k <= j].next = 0

\* The return value is left in L.eventEnd.
do_link_event(L, lineNum, prevLine, prev) ==
    LET n == prev.process
        event == procs[n].events[prev.next]
        other == linked_path(event)
        Ret(M, p) == [M EXCEPT !.eventEnd = p]
    IN  IF event.type = "Fork"
        THEN LET L1 == [L EXCEPT !.bad = @ \/ HasPath(L.paths, other),
                                 !.paths[other] = Path(lineNum)]
                 L2 == PushNode(get_successor(L1, prev))
             IN Ret(PushNode(start_path(L2, other)), 0)
        ELSE IF event.type = "Reap"
        THEN LET L1 == [L EXCEPT !.bad = @ \/ ~HasPath(L.paths, other)]
             IN IF ~path_ready_to_end(prevLine, other)
                THEN Ret(Push(L1, continue_path(prev)), 0)
                ELSE Ret(PushNode(get_successor(
                            [L1 EXCEPT !.paths[other].endLine = lineNum],
                            prev)), other)
        ELSE IF ~HasPath(L.paths, other)
        THEN Ret(Push(L, continue_path(prev)), 0)
        ELSE IF L.paths[n].killPartner = 0
        THEN Ret(PushNode(get_successor(
                    [L EXCEPT !.bad = @ \/ L.paths[other].killPartner # 0,
                              !.killBad = @ \/ L.paths[other].killPartner # 0],
                    prev)), 0)
        ELSE IF L.paths[other].killPartner # n
        THEN Ret(Push(L, continue_path(prev)), 0)
        ELSE Ret(PushNode(get_successor(
                    [L EXCEPT !.paths[other].killPartner = 0,
                              !.paths[n].killPartner = 0], prev)), other)

\* The loop of _build_next_line over the nodes of the previous line, from
\* its k-th node on.
RECURSIVE build_line(_, _, _, _)
build_line(L, lineNum, prevLine, k) ==
    IF k > Len(prevLine) THEN L
    ELSE
    LET prev == prevLine[k]
        n == prev.process
        L1 == IF /\ (n = diagram.leader /\ prev.next = 0) \/ end_of_path(prev)
                 /\ L.paths[n].endLine = -1
              THEN [L EXCEPT !.paths[n].endLine =
                                Max(lineNum - 1, L.paths[n].startLine)]
              ELSE L
        L2 == IF L1.eventEnd = n THEN [L1 EXCEPT !.eventEnd = 0] ELSE L1
        L3 == IF prev.next = 0
              THEN IF L2.paths[n].endLine = -1
                      \/ L2.paths[n].endLine >= lineNum
                   THEN Push(L2, continue_path(prev))
                   ELSE L2
              ELSE IF LinkEvent(procs[n].events[prev.next])
              THEN IF L2.eventEnd # 0
                   THEN Push(L2, continue_path(prev))
                   ELSE do_link_event(L2, lineNum, prevLine, prev)
              ELSE PushNode(get_successor(L2, prev))
    IN build_line(L3, lineNum, prevLine, k + 1)

build_next_line ==
    build_line([paths |-> diagram.paths, cur |-> <<>>, eventEnd |-> 0,
                bad |-> FALSE, killBad |-> FALSE],
               diagram.numLines, diagram.line, 1)

\* A = [lanes, paths]; lanes[i] is the set of processes put in lane i - 1.
Collides(paths, a, b) ==
    /\ paths[a].endLine >= paths[b].startLine
    /\ paths[a].startLine <= paths[b].endLine

\* The lane the path lands in: one above the topmost lane it collides
\* with, the bottom lane when it collides with none.
Landing(A, n) ==
    LET C == {i \in 1..Len(A.lanes) :
                 \E m \in A.lanes[i] : Collides(A.paths, n, m)}
    IN IF C = {} THEN 1 ELSE 1 + CHOOSE i \in C : \A j \in C : j <= i

\* Lane allocation that puts every path in the bottom lane.
Place_bottom(A, n) ==
    [lanes |-> [A.lanes EXCEPT ![1] = @ \cup {n}],
     paths |-> [A.paths EXCEPT ![n].lane = 0]]

Place(A, n) ==
    LET i == Landing(A, n)
        lanes == IF i > Len(A.lanes) THEN Append(A.lanes, {}) ELSE A.lanes
    IN [lanes |-> [lanes EXCEPT ![i] = @ \cup {n}],
        paths |-> [A.paths EXCEPT ![n].lane = i - 1]]

RECURSIVE allocate_process_to_lane(_, _)
RECURSIVE allocate_children(_, _, _)
allocate_process_to_lane(A, n) ==
    allocate_children(Place(A, n), n, Len(procs[n].events))

\* Allocation of the children in the order they were forked: the events
\* Len - i + 1, ..., Len of n.
allocate_children_forward(A, n, i) ==
    IF i = 0 THEN A
    ELSE LET ev == procs[n].events[Len(procs[n].events) - i + 1]
         IN allocate_children(IF ev.type = "Fork"
                              THEN allocate_process_to_lane(A, ev.child)
                              ELSE A,
                              n, i - 1)

\* The children of n forked by its events i, i - 1, ..., 1.
allocate_children(A, n, i) ==
    IF i = 0 THEN A
    ELSE LET ev == procs[n].events[i]
         IN allocate_children(IF ev.type = "Fork"
                              THEN allocate_process_to_lane(A, ev.child)
                              ELSE A,
                              n, i - 1)

(***************************************************************************)
(* SpecDiagram: a tree is recorded by notifications that succeed, then a   *)
(* Diagram of the first leader's tree is constructed (redraw), one call of *)
(* _build_next_line per step, and destroyed again.                         *)
(***************************************************************************)
Masks == {0, DEFAULT_OPTS}

TreeRoom(n, k) == /\ Len(procs[n].events) < MaxLog
                  /\ TotalEvents(procs, Len(procs)) + k <= MaxTreeEvents

Record(r) ==
    /\ r.err = "ok"
    /\ procs' = r.P /\ thrown' = "none"
    /\ UNCHANGED <<crashed, tracerVars, call, diagram>>

Recording == ~crashed /\ diagram.pc = "idle"

\* The process is inside a wait4 call that has not returned: it makes no
\* other call until a child is reaped or a signal ends it.
Blocked(n) ==
    LET i == LastWait(procs[n].events)
    IN i # 0 /\ procs[n].events[i].error = 0

\* A running process that can make its next call.
Running(n) == procs[n].state = ALIVE /\ ~Blocked(n)

\* Tracer::start: another leader, the root of a tree of its own.
D_start ==
    /\ Recording /\ Len(procs) < MaxTreeProcs
    /\ Record(Ok(Append(procs, Process(Len(procs) + 1, 0))))

D_notify_forked ==
    /\ Recording /\ Len(procs) < MaxTreeProcs
    /\ \E n \in Nodes :
         /\ Running(n) /\ TreeRoom(n, 1)
         /\ LET c == Len(procs) + 1
            IN Record(notify_forked(Append(procs, Process(c, n)), n, c))

D_notify_waiting ==
    /\ Recording
    /\ \E n \in Nodes :
         /\ Running(n) /\ TreeRoom(n, 1)
         /\ \E c \in Nodes : /\ procs[c].parent = n
                             /\ procs[c].state \in {ALIVE, ZOMBIE}
         /\ Record(notify_waiting(procs, n, -1, FALSE))

D_notify_reaped ==
    /\ Recording
    /\ \E n \in Nodes, c \in Nodes :
         /\ procs[c].parent = n /\ Blocked(n)
         /\ Record(notify_reaped(procs, n, c))

D_notify_ended ==
    /\ Recording
    /\ \E n \in Nodes, st \in LogStatuses :
         /\ TreeRoom(n, 1)
         /\ st.exited => Running(n)
         /\ Record(notify_ended(procs, n, st))

D_notify_sent_signal ==
    /\ Recording
    /\ \E src \in Nodes, dst \in Nodes \cup {0}, sig \in SentSignals :
         /\ Running(src) /\ TreeRoom(src, IF dst = 0 THEN 1 ELSE 2)
         /\ dst # 0 => Len(procs[dst].events) < MaxLog
         /\ Record(notify_sent_signal(procs,
                      IF dst = 0 THEN 0 ELSE procs[dst].pid,
                      src, dst, sig, FALSE))

\* An assert() of the source that is false aborts the program, unless the
\* build compiled the assertions out.
Built(L, d) ==
    \/ /\ ~L.bad
       /\ diagram' = d
       /\ UNCHANGED crashed
    \/ /\ L.bad
       /\ \/ diagram' = d /\ UNCHANGED crashed
          \/ diagram' = [diagram EXCEPT !.pc = "aborted"] /\ crashed' = TRUE

\* Diagram::Diagram and redraw up to its loop.
D_redraw ==
    /\ Recording
    /\ \E opts \in Masks :
         LET d == [NoDiagram EXCEPT
                     !.pc = "build", !.options = opts, !.leader = 1,
                     !.paths = [n \in Nodes |->
                                  IF n = 1 THEN Path(0) ELSE NoPath]]
         IN  /\ diagram' = d
    /\ UNCHANGED <<procs, thrown, crashed, tracerVars, call>>

\* _lines.push_back({ _start_path(_leader) })
D_start_path ==
    /\ ~crashed /\ diagram.pc = "build" /\ diagram.numLines = 0
    /\ LET s == start_path([paths |-> diagram.paths, cur |-> <<>>,
                            eventEnd |-> 0, bad |-> FALSE, killBad |-> FALSE], 1)
       IN Built(s.L, [diagram EXCEPT !.paths = s.L.paths,
                                     !.line = <<s.node>>,
                                     !.numLines = 1])
    /\ UNCHANGED <<procs, thrown, tracerVars, call>>

\* One iteration of while (_build_next_line()) { }.
D_build_next_line ==
    /\ ~crashed /\ diagram.pc = "build" /\ diagram.numLines > 0
    /\ LET L == build_next_line
       IN IF L.cur = <<>>
          THEN Built(L, [diagram EXCEPT !.pc = "allocate",
                                        !.paths = L.paths])
          ELSE Built(L, [diagram EXCEPT
                           !.paths = L.paths, !.line = L.cur,
                           !.numLines = IF @ < MaxLines THEN @ + 1 ELSE @])
    /\ UNCHANGED <<procs, thrown, tracerVars, call>>

\* The rest of redraw: the lanes.
D_allocate_process_to_lane ==
    /\ ~crashed /\ diagram.pc = "allocate"
    /\ LET A == allocate_process_to_lane(
                   [lanes |-> <<{}>>, paths |-> diagram.paths], 1)
       IN diagram' = [diagram EXCEPT !.pc = "done", !.paths = A.paths,
                                     !.laneCount = Len(A.lanes)]
    /\ UNCHANGED <<procs, thrown, crashed, tracerVars, call>>

\* Diagram::~Diagram
D_destroy ==
    /\ ~crashed /\ diagram.pc = "done"
    /\ diagram' = NoDiagram
    /\ UNCHANGED <<procs, thrown, crashed, tracerVars, call>>

NextDiagram ==
    \/ D_start
    \/ D_notify_forked
    \/ D_notify_waiting
    \/ D_notify_reaped
    \/ D_notify_ended
    \/ D_notify_sent_signal
    \/ D_redraw
    \/ D_start_path
    \/ D_build_next_line
    \/ D_allocate_process_to_lane
    \/ D_destroy

SpecDiagram == InitProc /\ [][NextDiagram]_vars

\* The trees made of leaders and sent signals only, drawn by a redraw that
\* keeps running once it was called.
NextSignalTrees ==
    \/ D_start
    \/ D_notify_sent_signal
    \/ D_redraw
    \/ D_start_path
    \/ D_build_next_line
    \/ D_allocate_process_to_lane
    \/ D_destroy

SpecDiagramFair ==
    /\ InitProc /\ [][NextSignalTrees]_vars
    /\ WF_vars(D_start_path)
    /\ WF_vars(D_build_next_line)
    /\ WF_vars(D_allocate_process_to_lane)


(***************************************************************************)
(* Claims                                                                  *)
(***************************************************************************)

\* C1: a node's lifecycle state changes only along Alive -> Zombie,
\* Zombie -> Reaped or Zombie -> Orphaned; Reaped and Orphaned are terminal
\* and no notification moves a non-Alive node back to Zombie or Alive.
C1_Lifecycle ==
    [][\A n \in 1..Len(procs) :
          procs'[n].state # procs[n].state =>
             \/ procs[n].state = ALIVE /\ procs'[n].state = ZOMBIE
             \/ procs[n].state = ZOMBIE /\ procs'[n].state = REAPED
             \/ procs[n].state = ZOMBIE /\ procs'[n].state = ORPHANED]_vars

\* C2 as stated: once a node is Zombie, Reaped or Orphaned the number of
\* entries of its log never changes.
C2_FrozenCount ==
    [][\A n \in 1..Len(procs) :
          dead(procs[n]) =>
             Len(procs'[n].events) = Len(procs[n].events)]_vars

\* The last event of node src records a signal sent to node n as the
\* sender's half of a Kill pair.
SentKillTo(P, src, n) ==
    /\ Len(P[src].events) > 0
    /\ LET e == P[src].events[Len(P[src].events)]
       IN e.type = "Kill" /\ e.sender /\ e.dest = n /\ e.source = src

\* C2 amended: a log never shrinks; the log of a dead node keeps its
\* number of entries, except that recording a Kill pair whose receiver is
\* the dead node adds exactly one entry to it (the sender's half being
\* appended to the log of another node in the same step).
C2_FrozenExceptKill ==
    [][\A n \in 1..Len(procs) :
          /\ Len(procs'[n].events) >= Len(procs[n].events)
          /\ (dead(procs[n])
                /\ Len(procs'[n].events) # Len(procs[n].events)) =>
               /\ Len(procs'[n].events) = Len(procs[n].events) + 1
               /\ \E src \in 1..Len(procs) :
                    /\ src # n
                    /\ Len(procs'[src].events)
                          = Len(procs[src].events) + 1
                    /\ SentKillTo(procs', src, n)]_vars

\* C2 witness: a dead node holds an entry that was added after its death
\* event, and the sender's log ends with the matching Kill.
C2_Witness ==
    \E n \in 1..Len(procs), src \in 1..Len(procs) :
        /\ dead(procs[n]) /\ src # n /\ SentKillTo(procs, src, n)
        /\ LET evs == procs[n].events
           IN /\ Len(evs) >= 2
              /\ evs[Len(evs) - 1].type \in {"Exit", "Signal"}
              /\ \/ evs[Len(evs)].type = "Invalid"
                 \/ evs[Len(evs)] = evs[Len(evs) - 1]

\* A ReapEvent for child c appears at position i of node n's log.
NewReap(n, i) ==
    /\ procs'[n].events[i].type = "Reap"
    /\ procs[n].events[i].type # "Reap"

\* C3: whenever a ReapEvent for a child C is recorded on a parent, then
\* immediately afterwards C's node is Reaped and C's pid is no longer in the
\* tracee map; the reap is only performed for a child that was in the map
\* and Dead, and a wait4 that returns any other pid raises BadTraceError
\* and records nothing.
C3_Reap ==
    [][/\ \A n \in 1..Len(procs) : \A i \in 1..Len(procs[n].events) :
            NewReap(n, i) =>
                LET c == procs'[n].events[i].child
                    pid == procs[c].pid
                IN  /\ procs'[c].state = REAPED
                    /\ ~InMap(tracees', pid)
                    /\ tracees[pid].state = "DEAD"
                    /\ tracees[pid].process = c
       /\ \A p \in Pids :
            (/\ pc = "s_wait" /\ os[p].st = "live" /\ os'[p].st = "live"
             /\ os[p].ret # 0 /\ os'[p].ret = 0
             /\ tracees[os[p].ret].state # "DEAD")
            => /\ thrown' = "BadTraceError" /\ errPid' = p
               /\ \A n \in 1..Len(procs) : \A i \in 1..Len(procs[n].events) :
                    ~NewReap(n, i)
      ]_vars

\* A parent's log holds a ReapEvent for a node that is Reaped and gone
\* from the map.
C3_Witness ==
    \E n \in 1..Len(procs) : \E i \in 1..Len(procs[n].events) :
        /\ procs[n].events[i].type = "Reap"
        /\ procs[procs[n].events[i].child].state = REAPED
        /\ ~InMap(tracees, procs[procs[n].events[i].child].pid)

\* C4: every call of step() eventually returns: the driver never stays in
\* step(), blocked in wait() while no tracee can produce a notification.
C4_StepReturns == (pc \in {"s_begin", "s_wait", "s_collect"}) ~> (pc = "idle")

\* C5: step() returns true exactly when the tracee map is non-empty at the
\* moment it returns, and when the map is empty on entry it returns false
\* without resuming or waiting for anything.
C5_StepResult ==
    [][/\ (pc \in {"s_begin", "s_collect"} /\ pc' = "idle"
            /\ stepRet' \in {"true", "false"})
          => (stepRet' = "true" <=> ~empty(tracees'))
       /\ (pc = "s_begin" /\ pc' # "s_begin" /\ empty(tracees))
          => /\ pc' = "idle" /\ stepRet' = "false"
             /\ UNCHANGED <<tracees, procs, orphans, recycledPIDs, os>>
      ]_vars

\* step() has just returned true with tracees left, having waited.
C5_Witness ==
    /\ pc = "idle" /\ stepRet = "true" /\ ~empty(tracees)
    /\ \E p \in Pids : tracees[p].state = "DEAD"

\* The driver's wait() returns the end of p in this step.
Ended(p) ==
    /\ pc = "s_wait"
    /\ os[p].st \in {"exited", "killed"}
    /\ os'[p].st \notin {"exited", "killed"}

\* The Dead entry of p and its node are left as they are in this step.
Untouched(p) ==
    /\ tracees'[p] = tracees[p]
    /\ procs'[tracees[p].process] = procs[tracees[p].process]

\* The Dead entry of p is removed in this step by a reap or by an orphan
\* notification.
Settled(p) ==
    /\ ~InMap(tracees', p)
    /\ procs'[tracees[p].process].state \in {REAPED, ORPHANED}

\* The Dead entry of p is replaced in this step by add_tracee.
Replaced(p) ==
    /\ InMap(tracees', p)
    /\ tracees'[p] = Tracee(p, Len(procs'))
    /\ tracees[p].process # Len(procs')
    /\ recycledPIDs' = Append(recycledPIDs, p)
    /\ procs'[tracees[p].process] = procs[tracees[p].process]

\* When wait() reports a tracee's end, a leader's entry is removed at once
\* and any other entry becomes Dead.
EndedRule ==
    \A p \in Pids :
        (Ended(p) /\ thrown' = "none") =>
            IF p \in leaders THEN ~InMap(tracees', p)
            ELSE tracees'[p].state = "DEAD"
                 /\ tracees'[p].process = tracees[p].process

C7_DroppedOnBadTrace ==
    (thrown = "BadTraceError" /\ errPid # 0) => ~InMap(tracees, errPid)

RECURSIVE Occurrences(_, _)
Occurrences(s, x) ==
    IF s = <<>> THEN 0
    ELSE (IF Head(s) = x THEN 1 ELSE 0) + Occurrences(Tail(s), x)

\* The pids a step takes off the front of the orphan queue.
Popped ==
    IF Len(orphans') < Len(orphans)
          /\ orphans' = SubSeq(orphans, Len(orphans) - Len(orphans') + 1,
                               Len(orphans))
    THEN SubSeq(orphans, 1, Len(orphans) - Len(orphans'))
    ELSE <<>>

\* The queue is a queue, and it is touched only by the thread that holds
\* the mutex: the reader thread appends the pid it has read, the driver
\* takes pids off the front.
QueueRule ==
    \/ orphans' = orphans
    \/ /\ orphans' = Append(orphans, rpid)
       /\ lock = "reader" /\ rpc = "push" /\ lock' = "none"
    \/ /\ Popped # <<>>
       /\ lock = "driver" /\ pc \in {"s_begin", "s_collect", "k_collect"}

\* C8 as stated: every pid pushed on the orphan queue is dequeued exactly
\* once, the queue is accessed only under the tracer mutex, and a dequeued
\* pid that denotes a Dead tracee makes that tracee's node Orphaned and
\* removes its entry from the map.
C8_OrphanQueue ==
    [][/\ QueueRule
       /\ \A x \in Pids :
            (/\ thrown' = "none" /\ Occurrences(Popped, x) > 0
             /\ tracees[x].state = "DEAD")
            => /\ ~InMap(tracees', x)
               /\ procs'[tracees[x].process].state = ORPHANED
      ]_vars

\* C8 amended: the last part holds for a dequeued pid that is not on the
\* recycled list (more often in the batch than on the list); a pid that is
\* on it is discarded, whatever the map holds under it.
C8_OrphanQueueUnlessRecycled ==
    [][/\ QueueRule
       /\ \A x \in Pids :
            (/\ thrown' = "none"
             /\ Occurrences(Popped, x) > Occurrences(recycledPIDs, x)
             /\ tracees[x].state = "DEAD")
            => /\ ~InMap(tracees', x)
               /\ procs'[tracees[x].process].state = ORPHANED
      ]_vars

\* An orphan notification has gone through the queue: the pipe and the
\* queue are empty again, the tracee it named is out of the map and its
\* node is Orphaned.
C8_Witness ==
    /\ orphans = <<>> /\ pipe = <<>> /\ rpc = "read"
    /\ \E n \in 1..Len(procs) :
         /\ procs[n].state = ORPHANED
         /\ tracees[procs[n].pid].process # n

\* The entry under p is replaced by an entry for another process.
Reused(p) ==
    /\ InMap(tracees, p) /\ InMap(tracees', p)
    /\ tracees'[p].process # tracees[p].process

\* C9: when add_tracee is given a pid that is already in the map, the old
\* entry is replaced by the new tracee and the pid is appended to the
\* recycled list, and only then; each orphan notification dequeued for a
\* pid on the recycled list removes one occurrence of it from the list and
\* leaves the entry under that pid and its node alone; a notification
\* dequeued for a pid that is not (or no longer) on the list is handled
\* normally.
C9_Recycled ==
    [][/\ \A p \in Pids :
            Reused(p) => /\ recycledPIDs' = Append(recycledPIDs, p)
                         /\ tracees'[p] = Tracee(p, Len(procs'))
       /\ Len(recycledPIDs') > Len(recycledPIDs) => \E p \in Pids : Reused(p)
       /\ \A x \in Pids :
            LET k == Occurrences(Popped, x)
                r == Occurrences(recycledPIDs, x)
            IN  (thrown' = "none" /\ Popped # <<>>) =>
                  /\ Occurrences(recycledPIDs', x)
                        = IF k <= r THEN r - k ELSE 0
                  /\ (0 < k /\ k <= r) =>
                        /\ tracees'[x] = IF pc = "s_begin"
                                         THEN resume(tracees[x])
                                         ELSE tracees[x]
                        /\ InMap(tracees, x) =>
                              procs'[tracees[x].process]
                                 = procs[tracees[x].process]
                  /\ (k > r /\ tracees[x].state = "DEAD") =>
                        /\ ~InMap(tracees', x)
                        /\ procs'[tracees[x].process].state = ORPHANED
      ]_vars

\* A pid has been reused while its old entry was in the map (the old node
\* is a non-leader that is neither Reaped nor Orphaned and not in the map
\* any more), the notification for the old tracee has been discarded (the
\* recycled list is empty again) and the later one for the new tracee has
\* orphaned it.
C9_Witness ==
    /\ recycledPIDs = <<>>
    /\ \E m, n \in 1..Len(procs) :
         /\ m < n /\ procs[m].pid = procs[n].pid
         /\ procs[m].parent # 0 /\ procs[m].state = ZOMBIE
         /\ procs[n].state = ORPHANED
         /\ ~InMap(tracees, procs[n].pid)

\* C10: once nuke() has been called while tracees exist, repeated calls of
\* step() eventually find the tracee map empty and return false.
C10_NukeEmpties ==
    (nuked /\ ~empty(tracees)) ~> (pc = "idle" /\ stepRet = "false")

\* C11: notify_orphaned makes a node Orphaned exactly when the node was
\* Zombie at the call; called in any other state it raises ProcessTreeError
\* and leaves the state (and the rest of the node table) unchanged.
C11_Orphaned ==
    [][/\ \A n \in 1..Len(procs) :
            LET r == notify_orphaned(procs, n)
            IN  IF procs[n].state = ZOMBIE
                THEN r.err = "ok" /\ r.P[n].state = ORPHANED
                ELSE r.err = "ProcessTreeError" /\ r.P = procs
       /\ \A n \in 1..Len(procs) :
            (procs'[n].state = ORPHANED /\ procs[n].state # ORPHANED)
                => procs[n].state = ZOMBIE /\ thrown' = "none"
      ]_vars

\* A node has been orphaned, and a later notify_orphaned on it has thrown.
C11_Witness ==
    /\ thrown = "ProcessTreeError"
    /\ \E n \in 1..Len(procs) : procs[n].state = ORPHANED

\* C12: at all times a node whose killed flag is set has a log that ends
\* with a SignalEvent with killed = TRUE, also after signals were sent to
\* the dead process.
C12_KilledLast ==
    \A n \in 1..Len(procs) :
        procs[n].killed =>
            /\ procs[n].events # <<>>
            /\ procs[n].events[Len(procs[n].events)].type = "Signal"
            /\ procs[n].events[Len(procs[n].events)].killed

\* The positions of node n's log holding a KillEvent of the pair (src, dst)
\* with the given signal and end.
KillEnds(n, src, dst, sig, snd) ==
    {i \in 1..Len(procs[n].events) :
        LET e == procs[n].events[i]
        IN  /\ e.type = "Kill" /\ e.source = src /\ e.dest = dst
            /\ e.signal = sig /\ e.sender = snd}

\* C13: after any sequence of signal sends every Kill pair has both of its
\* ends: a KillEvent appears only in the log of its source (sender = TRUE)
\* or of its destination (sender = FALSE), and for every source,
\* destination and signal the source's log holds as many sender ends as the
\* destination's log holds receiver ends.
C13_KillPairs ==
    ~crashed =>
    /\ \A n \in 1..Len(procs) : \A i \in 1..Len(procs[n].events) :
          LET e == procs[n].events[i]
          IN  e.type = "Kill" =>
                /\ e.source # e.dest
                /\ n = (IF e.sender THEN e.source ELSE e.dest)
    /\ \A src \in 1..Len(procs), dst \in 1..Len(procs), sig \in SentSignals :
          Cardinality(KillEnds(src, src, dst, sig, TRUE))
              = Cardinality(KillEnds(dst, src, dst, sig, FALSE))

\* The wait at the end of node n's log was interrupted (ERESTARTSYS).
Interrupted(n) ==
    /\ procs[n].events # <<>>
    /\ procs[n].events[Len(procs[n].events)].type = "Wait"
    /\ procs[n].events[Len(procs[n].events)].error = ERESTARTSYS

\* C14: when the last entry of a log is a WaitEvent that failed with
\* ERESTARTSYS and the next event notification is notify_waiting with the
\* same waited id and nohang flag, no WaitEvent is added: the log keeps its
\* entries, the one WaitEvent of that wait gets its error reset to 0, and
\* nothing is thrown.
C14_RestartMerged ==
    [][\A n \in 1..Len(procs) :
          LET evs == procs[n].events
              last == evs[Len(evs)]
          IN  (/\ Interrupted(n)
               /\ call'.op = "notify_waiting" /\ call'.n = n
               /\ call'.arg = <<last.waitedId, last.nohang>>)
              => /\ procs' = [procs EXCEPT ![n].events[Len(evs)].error = 0]
                 /\ thrown' = "none"
      ]_vars

\* A restarted wait has been merged: notify_waiting returned without
\* consuming the pending source location, which a new WaitEvent takes.
C14_Witness ==
    /\ call.op = "notify_waiting" /\ thrown = "none"
    /\ procs[1].location # NoLoc
    /\ procs[1].events[Len(procs[1].events)].type = "Wait"
    /\ procs[1].events[Len(procs[1].events)].error = 0

\* The driver has just handled the entry-stop of the wait4 of p that the
\* kernel restarted after an interruption.
Restarted(p) ==
    /\ os[p].intr = "restart" /\ os'[p].intr = "none"
    /\ os[p].st = "live" /\ os'[p].st = "live"
    /\ thrown' = "none"

\* C15 as stated: once a wait that was interrupted by an ignored signal and
\* restarted has reaped a child, the log holds one WaitEvent for it, the
\* one promoted into the Reap, and no WaitEvent with error ERESTARTSYS.
C15_SingleWait ==
    \A n \in 1..Len(procs) :
        (\E k \in 1..Len(procs[n].events) : procs[n].events[k].type = "Reap")
            => \A j \in 1..Len(procs[n].events) :
                  ~(/\ procs[n].events[j].type = "Wait"
                    /\ procs[n].events[j].error = ERESTARTSYS)

\* C15: when the driver has seen the exit-stop of a wait with ERESTARTSYS,
\* the signal-delivery-stop and the entry-stop of the restarted wait, the
\* log ends with the WaitEvent with error ERESTARTSYS, the SignalEvent of
\* the signal and a new WaitEvent with error 0; a failed WaitEvent that is
\* followed by another event is never changed again, so the later reap
\* promotes the second WaitEvent and the first one stays.
C15_WaitRecordedTwice ==
    [][/\ \A p \in Pids :
            Restarted(p) =>
              LET n == tracees[p].process
                  evs == procs[n].events
                  m == Len(evs)
              IN  /\ m >= 2
                  /\ evs[m - 1].type = "Wait"
                  /\ evs[m - 1].error = ERESTARTSYS
                  /\ evs[m].type = "Signal" /\ evs[m].signal = SIGWINCH
                  /\ Len(procs'[n].events) = m + 1
                  /\ SubSeq(procs'[n].events, 1, m) = evs
                  /\ procs'[n].events[m + 1].type = "Wait"
                  /\ procs'[n].events[m + 1].error = 0
       /\ \A n \in 1..Len(procs) : \A j \in 1..(Len(procs[n].events) - 1) :
            (procs[n].events[j].type = "Wait"
                /\ procs[n].events[j].error = ERESTARTSYS)
              => procs'[n].events[j] = procs[n].events[j]
      ]_vars

\* A restarted wait has reaped a child: the failed WaitEvent, the
\* SignalEvent and the Reap follow each other in the log.
C15_Witness ==
    \E n \in 1..Len(procs) : \E k \in 3..Len(procs[n].events) :
        /\ procs[n].events[k].type = "Reap"
        /\ procs[n].events[k - 1].type = "Signal"
        /\ procs[n].events[k - 2].type = "Wait"
        /\ procs[n].events[k - 2].error = ERESTARTSYS

\* The last event of node n is an ExecEvent whose attempts all failed, made
\* with the arguments args for a file of the same base name as file.
SameFailedExec(n, file, args) ==
    LET evs == procs[n].events
        last == evs[Len(evs)]
    IN  /\ evs # <<>>
        /\ last.type = "Exec"
        /\ \A i \in 1..Len(last.calls) : last.calls[i].errcode # 0
        /\ last.args = args
        /\ \A i \in 1..Len(last.calls) :
              get_base_name(last.calls[i].file) = get_base_name(file)

\* The last event of node n is no ExecEvent, or one that succeeded, or one
\* for other arguments or another base name.
OtherThanExec(n, file, args) ==
    LET evs == procs[n].events
        last == evs[Len(evs)]
    IN  \/ evs = <<>>
        \/ last.type # "Exec"
        \/ last.calls[Len(last.calls)].errcode = 0
        \/ last.args # args
        \/ get_base_name(last.calls[Len(last.calls)].file)
              # get_base_name(file)

\* C16: a failed exec attempt that follows failed attempts with the same
\* arguments and the same base name is appended to the attempts of that
\* ExecEvent, in the order made, and adds no event; an exec with other
\* arguments or base name, or after a non-exec event or a successful exec,
\* is appended to the log as an ExecEvent of its own.
C16_ExecMerging ==
    [][call'.op = "notify_exec" =>
         LET n == call'.n
             file == call'.arg[1]
             args == call'.arg[2]
             errcode == call'.arg[3]
             evs == procs[n].events
         IN  /\ (SameFailedExec(n, file, args) /\ errcode # 0) =>
                   /\ thrown' = "none"
                   /\ procs' = [procs EXCEPT ![n].events[Len(evs)].calls =
                                  Append(@, [file |-> file,
                                             errcode |-> errcode])]
             /\ OtherThanExec(n, file, args) =>
                   /\ thrown' = "none"
                   /\ Len(procs'[n].events) = Len(evs) + 1
                   /\ SubSeq(procs'[n].events, 1, Len(evs)) = evs
                   /\ procs'[n].events[Len(evs) + 1].type = "Exec"
                   /\ procs'[n].events[Len(evs) + 1].args = args
                   /\ procs'[n].events[Len(evs) + 1].calls
                         = <<[file |-> file, errcode |-> errcode]>>
      ]_vars

\* Two failed attempts for the same base name in different directories have
\* been merged into one ExecEvent.
C16_Witness ==
    /\ call.op = "notify_exec" /\ thrown = "none"
    /\ LET last == procs[1].events[Len(procs[1].events)]
       IN  /\ last.type = "Exec" /\ Len(last.calls) = 2
           /\ last.calls[1].file # last.calls[2].file
           /\ last.calls[1].errcode # 0 /\ last.calls[2].errcode # 0

Consumes(e) == \/ e.type \in {"Fork", "Exec", "Wait", "Raise"}
               \/ e.type = "Kill" /\ e.sender

C18_ThrowsWithoutWait ==
    [][(/\ call'.op \in {"notify_failed_wait", "notify_reaped"}
        /\ LastWait(procs[call'.n].events) = 0)
          => /\ thrown' = "ProcessTreeError"
             /\ ~crashed'
             /\ procs'[call'.n].events = procs[call'.n].events
      ]_vars

\* Paths of the finished layout.
Laid == {n \in Nodes : HasPath(diagram.paths, n)}

\* The construction ended below the cap of the line counter: numLines is
\* the number of lines.
LinesCounted == diagram.numLines < MaxLines

\* C19: after layout of a recorded tree every path has
\* startLine <= endLine <= number of lines, no two paths of one lane have
\* overlapping [startLine, endLine] intervals, and every lane is >= 0.
C19_Layout ==
    diagram.pc = "done" =>
      /\ LinesCounted
      /\ \A n \in Laid :
        /\ diagram.paths[n].startLine <= diagram.paths[n].endLine
        /\ diagram.paths[n].endLine <= diagram.numLines
        /\ diagram.paths[n].lane >= 0
        /\ \A m \in Laid \ {n} :
             diagram.paths[m].lane = diagram.paths[n].lane
               => ~Collides(diagram.paths, n, m)

\* A finished layout in which two paths share a lane and a third path
\* overlaps one of them.
C19_Witness ==
    /\ diagram.pc = "done"
    /\ \E n, m, k \in Laid :
         /\ n # m /\ diagram.paths[m].lane = diagram.paths[n].lane
         /\ diagram.paths[k].lane # diagram.paths[n].lane
         /\ Collides(diagram.paths, k, n)

\* C20: for every recorded tree, under any filter mask, also when a kill
\* pair's peer belongs to another leader's tree, the repeated
\* _build_next_line calls eventually produce an empty line and the
\* construction of the diagram terminates.
C20_Terminates == (diagram.pc = "build") ~> (diagram.pc = "done")

\* C28: a notify_reaped that returns normally replaces the waiter's most
\* recent WaitEvent, at the same index, by a ReapEvent of the reaped child
\* that holds that WaitEvent (its waited id, its nohang flag and its source
\* location); the length of the log and every other entry are unchanged.
C28_ReapInPlace ==
    [][(call'.op = "notify_reaped" /\ call' # call
            /\ thrown' = "none" /\ ~crashed')
        => LET n == call'.n
               i == LastWait(procs[n].events)
           IN /\ i > 0
              /\ Len(procs'[n].events) = Len(procs[n].events)
              /\ procs'[n].events[i].type = "Reap"
              /\ procs'[n].events[i].child = call'.arg[1]
              /\ procs'[n].events[i].waitedId = procs[n].events[i].waitedId
              /\ procs'[n].events[i].nohang = procs[n].events[i].nohang
              /\ procs'[n].events[i].location = procs[n].events[i].location
              /\ \A j \in 1..Len(procs[n].events) :
                    j # i => procs'[n].events[j] = procs[n].events[j]]_vars

\* A log in which a wait with a source location, followed by a later
\* event, has been replaced by the reap of a child.
C28_Witness ==
    /\ call.op = "notify_reaped" /\ thrown = "none" /\ ~crashed
    /\ \E i \in 1..Len(procs[1].events) :
         /\ procs[1].events[i].type = "Reap"
         /\ procs[1].events[i].child = call.arg[1]
         /\ procs[1].events[i].location # NoLoc
         /\ i < Len(procs[1].events)


\* C26: when notify_sent_signal records a signal sent to another process of
\* the tree, a receiver that is already dead gets its KillEvent immediately
\* before its death event, which stays the last entry of its log, and a
\* live receiver gets the KillEvent appended at the end of its log.
C26_KillBeforeDeath ==
    [][(call'.op = "notify_sent_signal" /\ call' # call
            /\ call'.arg[1] # 0 /\ thrown' = "none" /\ ~crashed')
        => LET dst == call'.arg[1]
               old == procs[dst].events
               new == procs'[dst].events
               n == Len(old)
               k == KillEvent(call'.n, dst, call'.arg[2], FALSE, FALSE)
           IN IF dead(procs[dst])
              THEN new = SubSeq(old, 1, n - 1) \o <<k, old[n]>>
              ELSE new = Append(old, k)]_vars


\* C29: the signal recorded at a signal-delivery-stop stays pending only
\* while the tracee is stopped and is handed over at the tracee's next
\* resume, which clears it: a running tracee has no pending signal, a
\* pending signal changes only by being cleared, in the step that resumes
\* the stopped tracee or in a step that removes or replaces the Tracee, and
\* a signal is recorded only when none was pending.
C29_InjectedOnce ==
    [][\A p \in Pids :
        /\ tracees'[p].state = "RUNNING" => tracees'[p].signal = 0
        /\ (tracees[p].signal # 0 /\ tracees'[p].signal # tracees[p].signal)
              => /\ tracees'[p].signal = 0
                 /\ \/ /\ tracees[p].state = "STOPPED"
                       /\ tracees'[p].state = "RUNNING"
                    \/ tracees'[p].state = "NONE"
                    \/ tracees'[p].process # tracees[p].process
        /\ (tracees'[p].signal # 0 /\ tracees'[p].signal # tracees[p].signal)
              => /\ tracees[p].signal = 0
                 /\ tracees[p].state = "RUNNING"
                 /\ tracees'[p].state = "STOPPED"]_vars

\* A tracee that was resumed after a signal-delivery-stop: it runs, nothing
\* is pending, and its log holds the SignalEvent of a signal that did not
\* kill it.
C29_Witness ==
    \E p \in Pids :
        /\ tracees[p].state = "RUNNING" /\ tracees[p].signal = 0
        /\ thrown = "none" /\ ~crashed
        /\ \E i \in 1..Len(procs[tracees[p].process].events) :
             LET e == procs[tracees[p].process].events[i]
             IN e.type = "Signal" /\ ~e.killed


\* The node of the line just built shows the KillEvent ev's other end.
OtherEnd(node, ev) ==
    /\ node.event # 0
    /\ LET o == procs[node.process].events[node.event]
       IN /\ o.type = "Kill" /\ o.sender # ev.sender
          /\ o.source = ev.source /\ o.dest = ev.dest
          /\ o.signal = ev.signal

\* C30: for every kill pair shown in the diagram, the line that holds the
\* node of the sender's KillEvent also holds the node of the receiver's
\* KillEvent, and the other way round.
C30_SameLine ==
    (~crashed /\ diagram.pc = "build") =>
        \A k \in 1..Len(diagram.line) :
            LET node == diagram.line[k]
            IN (/\ node.event # 0
                /\ procs[node.process].events[node.event].type = "Kill")
               => \E j \in 1..Len(diagram.line) :
                     /\ diagram.line[j].process
                          = linked_path(procs[node.process].events[node.event])
                     /\ OtherEnd(diagram.line[j],
                                 procs[node.process].events[node.event])


(***************************************************************************)
(* SpecDrawer: the Drawer of a Diagram (diagram.cpp:25-193), called in the *)
(* order in which Diagram::_draw_line and the events' draw() functions     *)
(* call it.  The Window is kept as its width.                              *)
(***************************************************************************)
LSHIFT == 1
MaxLanes == 2
MaxLaneWidth == 3
MaxDrawLines == 2
MaxText == 3

Drawer_start(r, numLanes, numLines) ==
    [r EXCEPT !.width = numLanes * r.laneWidth + LSHIFT]

\* start_lane that never reports a truncation.
start_lane_silent(r, lane) ==
    [r EXCEPT !.x = lane * r.laneWidth + LSHIFT]

start_lane(r, lane) ==
    LET x == lane * r.laneWidth + LSHIFT
    IN [r EXCEPT !.x = x, !.truncated = @ \/ x < r.xExtent]

start_line(r, line) == [r EXCEPT !.xExtent = 0, !.x = 0, !.y = line * 2]

draw_link(r) ==
    LET laneStart == ((r.x - LSHIFT) \div r.laneWidth) * r.laneWidth + LSHIFT
        padding == laneStart + r.laneWidth - r.x
    IN [r EXCEPT !.x = r.x + padding]

\* The callers backtrack one step from the start of a lane, where
\* _x >= LSHIFT, so the unsigned subtraction does not wrap.
backtrack(r, steps) ==
    [r EXCEPT !.x = r.x - steps,
              !.truncated = @ \/ r.x - steps < r.xExtent]

draw_char(r, count) ==
    IF r.x >= r.width THEN [r EXCEPT !.truncated = TRUE]
    ELSE [r EXCEPT !.x = r.x + count, !.xExtent = r.x + count]

draw_string(r, size) ==
    [r EXCEPT !.truncated = @ \/ r.x + size > r.width,
              !.x = r.x + size, !.xExtent = r.x + size]

Drawing == ~crashed /\ diagram.pc = "draw"

\* call.arg = <<lane, stage>>: the lane of the last start_lane and how far
\* the drawing of that lane's node has come.
Stage == call.arg[2]
NodeDrawn == Stage \in {"done", "text", "btext", "link"}

Draws(op, stage, r) ==
    /\ diagram' = [diagram EXCEPT !.renderer = r]
    /\ Note(op, 0, <<call.arg[1], stage>>)
    /\ UNCHANGED <<procs, thrown, crashed, tracerVars>>

\* Diagram::Diagram creates the Drawer; redraw starts it once the lanes
\* and lines are known.
Dr_start ==
    /\ ~crashed /\ diagram.pc = "idle"
    /\ \E w \in 1..MaxLaneWidth, numLanes \in 1..MaxLanes :
         /\ diagram' = [NoDiagram EXCEPT
                          !.pc = "draw", !.leader = 1,
                          !.laneCount = numLanes,
                          !.numLines = MaxDrawLines,
                          !.renderer = Drawer_start(Drawer(w), numLanes,
                                                    MaxDrawLines)]
         /\ Note("start", 0, <<0, "start">>)
    /\ UNCHANGED <<procs, thrown, crashed, tracerVars>>

\* _draw_line begins the next line.
Dr_start_line ==
    /\ Drawing /\ (Stage = "start" \/ NodeDrawn)
    /\ \E line \in 0..(MaxDrawLines - 1) :
         /\ IF Stage = "start" THEN line = 0
            ELSE line * 2 = diagram.renderer.y + 2
         /\ diagram' = [diagram EXCEPT
                          !.renderer = start_line(diagram.renderer, line)]
         /\ Note("start_line", 0, <<0, "line">>)
    /\ UNCHANGED <<procs, thrown, crashed, tracerVars>>

\* _draw_line reaches the next node of the line, or a lane that a link
\* passes through.
Dr_start_lane ==
    /\ Drawing /\ (Stage = "line" \/ NodeDrawn)
    /\ \E lane \in 0..(diagram.laneCount - 1) :
         /\ lane >= call.arg[1]
         /\ NodeDrawn => lane > call.arg[1]
         /\ diagram' = [diagram EXCEPT
                          !.renderer = start_lane(diagram.renderer, lane)]
         /\ Note("start_lane", 0, <<lane, "lane">>)
    /\ UNCHANGED <<procs, thrown, crashed, tracerVars>>

\* SignalEvent::draw and ExitEvent::draw backtrack first when the process
\* is orphaned or was killed.
Dr_backtrack ==
    /\ Drawing /\ Stage = "lane"
    /\ Draws("backtrack", "back", backtrack(diagram.renderer, 1))

\* The character of a path or of an event, or a bracket around a text.
Dr_draw_char ==
    /\ Drawing /\ Stage \in {"lane", "back", "btext"}
    /\ Draws("draw_char",
             IF Stage = "back" THEN "open" ELSE "done",
             draw_char(diagram.renderer, 1))

\* The number of a signal or an exit status.
Dr_draw_string ==
    /\ Drawing /\ Stage \in {"lane", "open"}
    /\ \E size \in 1..MaxText :
         Draws("draw_string",
               IF Stage = "open" THEN "btext" ELSE "text",
               draw_string(diagram.renderer, size))

Dr_draw_link ==
    /\ Drawing /\ Stage \in {"lane", "done", "text", "btext"}
    /\ Draws("draw_link", "link", draw_link(diagram.renderer))

\* Diagram::~Diagram
Dr_destroy ==
    /\ Drawing /\ NodeDrawn
    /\ diagram' = NoDiagram
    /\ call' = NoCall
    /\ UNCHANGED <<procs, thrown, crashed, tracerVars>>

NextDrawer ==
    \/ Dr_start
    \/ Dr_start_line
    \/ Dr_start_lane
    \/ Dr_backtrack
    \/ Dr_draw_char
    \/ Dr_draw_string
    \/ Dr_draw_link
    \/ Dr_destroy

SpecDrawer == InitProc /\ [][NextDrawer]_vars

\* The step moved _x to the left of the x-extent of the current line: a
\* draw was begun in a lane that the previous draw had already covered.
CrossedLeft ==
    /\ call'.op \in {"start_lane", "backtrack"}
    /\ diagram'.renderer.x < diagram'.renderer.xExtent

\* The step tried to draw beyond the right edge of the window.
RanOff ==
    \/ /\ call'.op = "draw_char"
       /\ diagram.renderer.x >= diagram.renderer.width
    \/ /\ call'.op = "draw_string"
       /\ diagram'.renderer.x > diagram.renderer.width

\* C21 as stated: the truncated flag is set if and only if some draw
\* attempted to cross a lane boundary leftward of the previous x-extent
\* of the current line.
C21_TruncatedIffCrossed ==
    [][diagram'.pc = "draw" =>
         (diagram'.renderer.truncated
            <=> (diagram.renderer.truncated \/ CrossedLeft))]_vars

\* C21 amended: the truncated flag is set if and only if some start_lane
\* or backtrack moved _x to the left of the x-extent of the current line,
\* or some draw_char or draw_string reached beyond the window's width.
C21_Truncated ==
    [][diagram'.pc = "draw" =>
         (diagram'.renderer.truncated
            <=> (diagram.renderer.truncated \/ CrossedLeft \/ RanOff))]_vars

\* A lane was started to the left of what the previous lane's text
\* covered, inside the window, and the flag is set.
C21_Witness ==
    /\ diagram.pc = "draw" /\ call.op = "start_lane"
    /\ diagram.renderer.x < diagram.renderer.xExtent
    /\ diagram.renderer.xExtent <= diagram.renderer.width
    /\ diagram.renderer.truncated


(***************************************************************************)
(* SpecCalls: the system calls of the tracees as the handlers of step()    *)
(* see them (tracer.cpp:109-759, ptrace.cpp:38-466): wait4 and waitid with *)
(* or without a result pointer, kill, execve, the banned calls, the fake   *)
(* call of forktrace.h and all other calls.  The operators work on         *)
(* X = [S, K]: the tracer's state and the kernel's records (os).           *)
(***************************************************************************)
WORD_SIZE == 8
SIZEOF_INT == 4
SIZEOF_SIGINFO == 128
P_ALL == 0
P_PID == 1
P_PGID == 2
PID_T_MAX == 2147483647
EINVAL == 22
CLD_EXITED == 1
CLD_KILLED == 2
CLD_DUMPED == 3
SYSCALL_WAITID == 247
SYSCALL_KILL == 62
SYSCALL_EXECVE == 59
SYSCALL_PTRACE == 101
SYSCALL_FAKE == -2

ALIGNED_ROUND_DOWN(x) == (x \div WORD_SIZE) * WORD_SIZE

ALIGNED_ROUND_UP(x) ==
    IF x % WORD_SIZE # 0 THEN ALIGNED_ROUND_DOWN(x) + WORD_SIZE ELSE x

Bytes(n, v) == [i \in 1..n |-> v]

\* ptrace(PTRACE_PEEKDATA) and ptrace(PTRACE_POKEDATA) on word i of a
\* region of the tracee's memory, and memcpy of n bytes of src to the bytes
\* of dest after offset at.
PEEKDATA(mem, i) == SubSeq(mem, i * WORD_SIZE + 1, (i + 1) * WORD_SIZE)

POKEDATA(mem, i, word) ==
    [j \in 1..Len(mem) |->
        IF j > i * WORD_SIZE /\ j <= (i + 1) * WORD_SIZE
        THEN word[j - i * WORD_SIZE] ELSE mem[j]]

memcpy(dest, at, src, n) ==
    [j \in 1..Len(dest) |-> IF j > at /\ j <= at + n THEN src[j - at]
                            ELSE dest[j]]

\* The loop of copy_from_tracee from word i on: the word is read, and the
\* loop is left before the last word is stored.
RECURSIVE copy_from_words(_, _, _, _)
copy_from_words(dest, src, len, i) ==
    LET numWords == ALIGNED_ROUND_UP(len) \div WORD_SIZE
        word == PEEKDATA(src, i)
    IN IF i + 1 >= numWords
       THEN memcpy(dest, i * WORD_SIZE, word, len % WORD_SIZE)
       ELSE copy_from_words(memcpy(dest, i * WORD_SIZE, word, WORD_SIZE),
                            src, len, i + 1)

copy_from_tracee(dest, src, len) == copy_from_words(dest, src, len, 0)

\* The full words of copy_to_tracee from word i on, then the remainder
\* through a word read from the tracee.
RECURSIVE copy_to_words(_, _, _, _)
copy_to_words(dest, src, len, i) ==
    LET numWords == ALIGNED_ROUND_DOWN(len) \div WORD_SIZE
        remainder == len % WORD_SIZE
    IN IF i < numWords
       THEN copy_to_words(POKEDATA(dest, i, PEEKDATA(src, i)), src, len,
                          i + 1)
       ELSE IF remainder # 0
       THEN POKEDATA(dest, i,
                memcpy(PEEKDATA(dest, i), 0,
                       SubSeq(src, i * WORD_SIZE + 1, len), remainder))
       ELSE dest

\* copy_to_tracee that writes the trailing word without reading it first.
copy_to_tracee_blind(dest, src, len) ==
    [j \in 1..Len(dest) |->
        IF j <= len THEN src[j]
        ELSE IF j <= ALIGNED_ROUND_UP(len) THEN 0 ELSE dest[j]]
copy_to_tracee(dest, src, len) == copy_to_words(dest, src, len, 0)

RECURSIVE memset_words(_, _, _, _)
memset_words(dest, value, len, i) ==
    LET numWords == ALIGNED_ROUND_DOWN(len) \div WORD_SIZE
        remainder == len % WORD_SIZE
        valueWord == Bytes(WORD_SIZE, value)
    IN IF i < numWords
       THEN memset_words(POKEDATA(dest, i, valueWord), value, len, i + 1)
       ELSE IF remainder # 0
       THEN POKEDATA(dest, i,
                memcpy(PEEKDATA(dest, i), 0, valueWord, remainder))
       ELSE dest

memset_tracee(dest, value, len) == memset_words(dest, value, len, 0)

\* to_wait4_id that passes a process group on as a pid.
to_wait4_id_plain(type, id) ==
    IF type = P_ALL THEN -1
    ELSE IF type \in {P_PID, P_PGID} THEN id
    ELSE PID_T_MAX
to_wait4_id(type, id) ==
    IF type = P_ALL THEN -1
    ELSE IF type = P_PID THEN id
    ELSE IF type = P_PGID THEN -id
    ELSE PID_T_MAX

\* Wait4Call::Wait4Call and WaitIDCall::WaitIDCall.
Wait4Call(pid, status, nohang) ==
    [NoWaitCall EXCEPT !.kind = "wait4", !.waitedId = pid,
                       !.nohang = nohang, !.result = status]

WaitIDCall(type, id, infop, nohang) ==
    [NoWaitCall EXCEPT !.kind = "waitid", !.waitedId = to_wait4_id(type, id),
                       !.nohang = nohang, !.result = infop]

\* sizeof(Result) and ZeroTheResult of the two instances of WaitCall.
SizeofResult(w) == IF w.kind = "wait4" THEN SIZEOF_INT ELSE SIZEOF_SIGINFO
ZeroTheResult(w) == w.kind = "waitid"

\* WaitCall::prepare for a tracee that stays alive; fault says the read of
\* the scratch region fails with EFAULT or EIO.  The result is
\* [S, K, w]: w is the call as prepare leaves it.
WaitCall_prepare(X, p, w, fault) ==
    LET size == SizeofResult(w)
        scratch == w.result = "null"
        w1 == IF scratch
              THEN [w EXCEPT !.result = "scratch", !.saved = TRUE,
                             !.oldData = copy_from_tracee(Bytes(size, 0),
                                            X.K[p].mem.scratch, size)]
              ELSE w
        K1 == IF scratch THEN [X.K EXCEPT ![p].rptr = "scratch"] ELSE X.K
        K2 == IF ZeroTheResult(w)
              THEN [K1 EXCEPT ![p].mem[w1.result] = memset_tracee(@, 0, size)]
              ELSE K1
        r == notify_waiting(X.S.P, X.S.T[p].process, w.waitedId, w.nohang)
    IN IF scratch /\ fault
       THEN [S |-> X.S, K |-> X.K,
             w |-> [w EXCEPT !.saved = FALSE, !.result = "null"]]
       ELSE [S |-> [X.S EXCEPT !.P = r.P, !.err = r.err], K |-> K2, w |-> w1]

\* Tracer::initiate_wait
Tracer_initiate_wait(X, p, w, fault) ==
    LET Y == WaitCall_prepare(X, p, w, fault)
    IN IF Y.S.err # "ok" THEN [S |-> Y.S, K |-> Y.K]
       ELSE [S |-> [Y.S EXCEPT !.T[p].blockingCall = TRUE,
                               !.T[p].wait = Y.w],
             K |-> Y.K]

\* WaitCall::get_result: [retval, result, k].  The bytes of the local
\* result that are not written stay indeterminate and are not read.
WaitCall_get_result(w, k, rax) ==
    LET size == SizeofResult(w)
    IN IF ~w.saved /\ w.result = "null"
       THEN [retval |-> -1, result |-> Bytes(size, 0), k |-> k]
       ELSE [retval |-> rax,
             result |-> copy_from_tracee(Bytes(size, 0), k.mem[w.result],
                                         size),
             k |-> IF w.saved
                   THEN [k EXCEPT !.mem[w.result] =
                                     copy_to_tracee(@, w.oldData, size),
                                  !.rptr = "null"]
                   ELSE k]

\* The int and the siginfo_t fields that finalise reads from the result.
WIFEXITED(result) == result[1] % 128 = 0
WIFSIGNALED(result) == result[1] % 128 \in 1..126
si_code(result) == result[9]
si_pid(result) == result[17]

Wait4Call_finalise(X, p, rax) ==
    LET g == WaitCall_get_result(X.S.T[p].wait, X.K[p], rax)
    IN [K |-> [X.K EXCEPT ![p] = g.k],
        S |-> IF g.retval > 0 /\ (WIFEXITED(g.result) \/ WIFSIGNALED(g.result))
              THEN on_success(X.S, p, g.retval)
              ELSE IF g.retval < 0 THEN on_failure(X.S, p, -g.retval)
              ELSE X.S]

WaitIDCall_finalise(X, p, rax) ==
    LET g == WaitCall_get_result(X.S.T[p].wait, X.K[p], rax)
    IN [K |-> [X.K EXCEPT ![p] = g.k],
        S |-> IF /\ g.retval = 0 /\ si_pid(g.result) # 0
                 /\ si_code(g.result) \in {CLD_EXITED, CLD_KILLED, CLD_DUMPED}
              THEN on_success(X.S, p, si_pid(g.result))
              ELSE IF g.retval < 0 THEN on_failure(X.S, p, -g.retval)
              ELSE X.S]

\* Tracer::handle_syscall_exit: an exception of finalise leaves through it
\* before the call is reset and the tracee resumed.
Tracer_handle_syscall_exit(X, p, rax) ==
    LET X1 == IF ~X.S.T[p].blockingCall THEN X
              ELSE IF X.S.T[p].wait.kind = "wait4"
              THEN Wait4Call_finalise(X, p, rax)
              ELSE WaitIDCall_finalise(X, p, rax)
    IN IF X1.S.err # "ok" THEN X1
       ELSE [X1 EXCEPT !.S.T[p] =
                [resume([@ EXCEPT !.blockingCall = FALSE,
                                  !.wait = NoWaitCall])
                    EXCEPT !.syscall = SYSCALL_NONE]]


(***************************************************************************)
(* The kernel's side of the calls.  os[p].sys is the call p is in, args    *)
(* its selector as the kernel reads it, rptr the region its result goes   *)
(* to ("null", "user" or "scratch") and mem the two regions of p's memory *)
(* the calls touch: the page the frame pointer is in (scratch,            *)
(* ptrace.cpp:136-155) and the buffer the program passes (user).          *)
(* The pids of tracees are above 1, so a negative target of kill names a  *)
(* process group.                                                          *)
(***************************************************************************)
IdTypes == {P_ALL, P_PID, P_PGID, P_PGID + 1}

\* The kernel's reading of the pid argument of wait4.
Wait4Args(pid, nohang) ==
    [idtype |-> IF pid = -1 THEN P_ALL ELSE IF pid > 0 THEN P_PID ELSE P_PGID,
     id |-> IF pid > 0 THEN pid ELSE IF pid = -1 THEN 0 ELSE -pid,
     nohang |-> nohang]

\* The children of p that a wait with the selector a can return.
Selected(K, p, a) ==
    {c \in Pids :
        /\ K[c].st # "free" /\ K[c].par = p
        /\ \/ a.idtype = P_ALL
           \/ a.idtype = P_PID /\ c = a.id
           \/ a.idtype = P_PGID
              /\ K[c].pg = (IF a.id = 0 THEN K[p].pg ELSE a.id)}

\* What the wait of p returns now: rax and the child it reaps (0 for
\* none).  The set is empty while the call blocks.
WaitOutcomes(K, p) ==
    LET a == K[p].args
        kids == Selected(K, p, a)
        ended == {c \in kids : K[c].st = "zombie"}
    IN IF a.idtype \notin {P_ALL, P_PID, P_PGID}
       THEN {[rax |-> -EINVAL, child |-> 0]}
       ELSE IF kids = {} THEN {[rax |-> -ECHILD, child |-> 0]}
       ELSE IF ended # {}
       THEN {[rax |-> IF K[p].sys = SYSCALL_WAIT4 THEN c ELSE 0,
              child |-> c] : c \in ended}
       ELSE IF a.nohang THEN {[rax |-> 0, child |-> 0]}
       ELSE {}

\* The bytes the kernel stores for the outcome o: the status of a child
\* that exited with 0 for wait4, si_code and si_pid for waitid.
StoreResult(bytes, sys, o) ==
    [i \in 1..Len(bytes) |->
        IF sys = SYSCALL_WAIT4
        THEN IF o.child # 0 /\ i <= SIZEOF_INT THEN 0 ELSE bytes[i]
        ELSE IF o.rax # 0 THEN bytes[i]
        ELSE IF i = 9 THEN (IF o.child # 0 THEN CLD_EXITED ELSE 0)
        ELSE IF i = 17 THEN o.child
        ELSE bytes[i]]

\* The wait of p returns o: the child is reaped and the result stored.
KernelReturn(K, p, o) ==
    LET K1 == IF o.child # 0 THEN [K EXCEPT ![o.child] = FreeSlot] ELSE K
    IN IF K[p].rptr = "null" THEN K1
       ELSE [K1 EXCEPT ![p].mem[K[p].rptr] = StoreResult(@, K[p].sys, o)]

\* The processes kill(target, ...) of p addresses.
KillTargets(K, p, target) ==
    {q \in Pids : /\ K[q].st # "free"
                  /\ \/ target = 0 /\ K[q].pg = K[p].pg
                     \/ target > 0 /\ q = target
                     \/ target < 0 /\ K[q].pg = -target}

\* The call is over: the kernel forgets it.
Returned(K, p) == [K EXCEPT ![p].sys = SYSCALL_NONE, ![p].args = NoArgs,
                            ![p].rptr = "null"]

(***************************************************************************)
(* The handlers of the calls (tracer.cpp:457-759).                         *)
(***************************************************************************)
Tracer_on_sent_signal(S, p, target, signal) ==
    LET dest == IF target \in Pids /\ InMap(S.T, target)
                THEN S.T[target].process ELSE 0
        r == notify_sent_signal(S.P, target, S.T[p].process, dest, signal,
                                FALSE)
    IN [S EXCEPT !.P = r.P, !.err = r.err]

\* Tracer::handle_kill.  The kernel runs the call between the resume and
\* the waitpid.  After the end of a leader the assert reads the Tracee
\* that handle_wait_notification erased: err = "freed" and the caller
\* picks the outcome.
Tracer_handle_kill(X, p, target, signal) ==
    LET S0 == [X.S EXCEPT !.T[p] = resume(@)]
        hit == KillTargets(X.K, p, target)
        victims == {q \in hit : X.K[q].st = "live"}
        K1 == IF signal = SIGKILL THEN Die(X.K, victims, "killed") ELSE X.K
    IN IF signal = SIGKILL /\ p \in victims
       THEN LET S1 == IF target = 0 \/ target = p \/ target = -p
                      THEN Tracer_on_sent_signal(S0, p, target, signal)
                      ELSE S0
                S2 == IF S1.err # "ok" THEN S1
                      ELSE handle_ended(S1, p, StatusOf(K1[p]))
            IN [S |-> IF S2.err = "ok" /\ ~InMap(S2.T, p)
                      THEN [S2 EXCEPT !.err = "freed"] ELSE S2,
                K |-> Consumed(K1, p)]
       ELSE LET S1 == [S0 EXCEPT !.T[p].state = "STOPPED",
                                 !.T[p].syscall = SYSCALL_NONE]
            IN [S |-> IF signal = 0 \/ hit = {}
                      THEN [S1 EXCEPT !.T[p] = resume(@)]
                      ELSE Tracer_on_sent_signal(S1, p, target, signal),
                K |-> K1]

\* Tracer::handle_exec: the tracee is taken to its syscall-exit-stop and
\* left there.
Tracer_handle_exec(X, p, file, args, errcode) ==
    LET S1 == [X.S EXCEPT !.T[p].state = "STOPPED",
                          !.T[p].syscall = SYSCALL_NONE]
        r == notify_exec(S1.P, S1.T[p].process, file, args, errcode)
    IN [X EXCEPT !.S = [S1 EXCEPT !.P = r.P, !.err = r.err]]

Tracer_handle_new_location(X, p, location) ==
    [X EXCEPT !.S.P = update_location(@, X.S.T[p].process, location),
              !.S.T[p] = resume(@)]

\* The syscall-entry-stop as step() reads it.
NoStop == [syscall |-> SYSCALL_NONE, a |-> <<>>, status |-> "null",
           nohang |-> FALSE, fault |-> FALSE, rax |-> 0]

\* Tracer::handle_syscall_entry without the fork, which handle_fork has.
Tracer_handle_syscall_entry(X, p, stop) ==
    LET X1 == [X EXCEPT !.S.T[p].syscall = stop.syscall]
    IN IF stop.syscall = SYSCALL_PTRACE
       THEN [X1 EXCEPT !.S.T[p] = resume(@)]
       ELSE IF stop.syscall = SYSCALL_EXECVE
       THEN Tracer_handle_exec(X1, p, stop.a[1], stop.a[2], stop.a[3])
       ELSE IF stop.syscall = SYSCALL_WAIT4
       THEN Tracer_initiate_wait(X1, p,
                Wait4Call(stop.a[1], stop.status, stop.nohang), stop.fault)
       ELSE IF stop.syscall = SYSCALL_WAITID
       THEN Tracer_initiate_wait(X1, p,
                WaitIDCall(stop.a[1], stop.a[2], stop.status, stop.nohang),
                stop.fault)
       ELSE IF stop.syscall = SYSCALL_KILL
       THEN Tracer_handle_kill(X1, p, stop.a[1], stop.a[2])
       ELSE IF stop.syscall = SYSCALL_FAKE
       THEN Tracer_handle_new_location(X1, p, stop.a[1])
       ELSE [X1 EXCEPT !.S.T[p] = resume(@)]

\* handle_wait_notification and handle_stopped for a syscall-stop.
Tracer_handle_stopped(X, p, stop) ==
    IF X.S.T[p].state = "DEAD" THEN [X EXCEPT !.S = BadTraceError(X.S, p)]
    ELSE LET X1 == [X EXCEPT !.S.T[p].state = "STOPPED"]
         IN IF X1.S.T[p].syscall # SYSCALL_NONE
            THEN Tracer_handle_syscall_exit(X1, p, stop.rax)
            ELSE Tracer_handle_syscall_entry(X1, p, stop)

\* The handler returns to step(), throws, or has read the erased Tracee:
\* the assert passes on what the freed node holds or aborts.
Finish(X, op, p, arg) ==
    /\ Commit(X.S) /\ os' = X.K /\ Note(op, p, arg)
    /\ \/ /\ X.S.err = "ok"
          /\ pc' = "s_collect" /\ lock' = "driver" /\ stepRet' = stepRet
          /\ Calm
       \/ /\ X.S.err = "freed"
          /\ pc' = "s_collect" /\ lock' = "driver" /\ stepRet' = stepRet
          /\ thrown' = "none" /\ errPid' = 0 /\ diagram' = diagram /\ bg' = bg
          /\ crashed' \in BOOLEAN
       \/ /\ X.S.err \notin {"ok", "freed"}
          /\ Leave(X.S)

Now == [S |-> Here, K |-> os]

\* p runs in user mode, and the tracer's record of it agrees.
InUserMode(p) ==
    /\ os[p].st = "live" /\ tracees[p].state = "RUNNING"
    /\ tracees[p].syscall = SYSCALL_NONE /\ os[p].sys = SYSCALL_NONE
    /\ os[p].intr = "none"

\* Calls that stay in flight while the tracee runs on; 0 is read, one of
\* the calls handle_syscall_entry has no case for.
PlainCalls == {SYSCALL_PTRACE, SYSCALL_FAKE, 0}
StackBytes == {0, 255}
WaitPids == {-1, MaxPid}
KillSignals == {0, SIGKILL}

MaxCallProcs == 2   \* processes of the one program SpecCalls traces

\* One program is started, and its processes fork within the bound.
C_start == procs = <<>> /\ Start

C_fork == Len(procs) < MaxCallProcs /\ Step_wait_fork

\* The program of tracee p fills the page its frame pointer is in.
C_store ==
    /\ ~crashed
    /\ \E p \in Pids, v \in StackBytes :
         /\ InUserMode(p)
         /\ os[p].mem = NoMem
         /\ os' = [os EXCEPT ![p].mem =
                      [scratch |-> Bytes(SIZEOF_SIGINFO, v),
                       user |-> Bytes(SIZEOF_SIGINFO, 0)]]
    /\ UNCHANGED <<procs, thrown, crashed, call, diagram, tracees, leaders,
                   orphans, recycledPIDs, lock, pc, stepRet, rpc, rpid, pipe,
                   nuked, errPid, bg>>

\* wait() returns the syscall-entry-stop of wait4(pid, status, options).
C_wait4_entry ==
    /\ ~crashed /\ pc = "s_wait" /\ lock = "none"
    /\ \E p \in Pids, pid \in WaitPids, status \in {"null", "user"},
          nohang \in BOOLEAN, fault \in BOOLEAN :
         /\ InUserMode(p) /\ os[p].mem # NoMem
         /\ fault => status = "null"
         /\ fault \/ WaitRoom(tracees[p].process)
         /\ LET K0 == [os EXCEPT ![p].sys = SYSCALL_WAIT4,
                                 ![p].args = Wait4Args(pid, nohang),
                                 ![p].rptr = status]
                stop == [NoStop EXCEPT !.syscall = SYSCALL_WAIT4,
                                       !.a = <<pid>>, !.status = status,
                                       !.nohang = nohang, !.fault = fault]
            IN Finish(Tracer_handle_stopped([S |-> Here, K |-> K0], p, stop),
                      "wait4_entry", p,
                      <<status, fault, os[p].mem.scratch, K0[p].args>>)
    /\ UNCHANGED <<rpc, rpid, pipe, nuked>>

\* wait() returns the syscall-entry-stop of waitid(idtype, id, infop,
\* options).
C_waitid_entry ==
    /\ ~crashed /\ pc = "s_wait" /\ lock = "none"
    /\ \E p \in Pids, idtype \in IdTypes, id \in Pids,
          infop \in {"null", "user"}, nohang \in BOOLEAN, fault \in BOOLEAN :
         /\ InUserMode(p) /\ os[p].mem # NoMem
         /\ fault => infop = "null"
         /\ fault \/ WaitRoom(tracees[p].process)
         /\ LET K0 == [os EXCEPT ![p].sys = SYSCALL_WAITID,
                                 ![p].args = [idtype |-> idtype, id |-> id,
                                              nohang |-> nohang],
                                 ![p].rptr = infop]
                stop == [NoStop EXCEPT !.syscall = SYSCALL_WAITID,
                                       !.a = <<idtype, id>>,
                                       !.status = infop,
                                       !.nohang = nohang, !.fault = fault]
            IN Finish(Tracer_handle_stopped([S |-> Here, K |-> K0], p, stop),
                      "waitid_entry", p,
                      <<infop, fault, os[p].mem.scratch, K0[p].args>>)
    /\ UNCHANGED <<rpc, rpid, pipe, nuked>>

\* The wait of p returns, and wait() returns its syscall-exit-stop.
C_wait_exit ==
    /\ ~crashed /\ pc = "s_wait" /\ lock = "none"
    /\ \E p \in Pids :
         /\ os[p].st = "live" /\ tracees[p].state = "RUNNING"
         /\ os[p].sys \in {SYSCALL_WAIT4, SYSCALL_WAITID}
         /\ tracees[p].syscall = os[p].sys
         /\ \E o \in WaitOutcomes(os, p) :
              LET X == Tracer_handle_stopped(
                           [S |-> Here, K |-> KernelReturn(os, p, o)], p,
                           [NoStop EXCEPT !.rax = o.rax])
              IN Finish([X EXCEPT !.K = Returned(@, p)],
                        "wait_exit", p, <<o.rax>>)
    /\ UNCHANGED <<rpc, rpid, pipe, nuked>>

\* wait() returns the syscall-entry-stop of kill(target, signal).
C_kill ==
    /\ ~crashed /\ pc = "s_wait" /\ lock = "none"
    /\ \E p \in Pids, signal \in KillSignals :
         \E target \in {0, -os[p].pg} \cup Pids :
           /\ InUserMode(p)
           /\ Len(procs[tracees[p].process].events) + 1 < MaxLog
           /\ Finish(Tracer_handle_stopped(Now, p,
                        [NoStop EXCEPT !.syscall = SYSCALL_KILL,
                                       !.a = <<target, signal>>]),
                     "kill", p, <<target, signal>>)
    /\ UNCHANGED <<rpc, rpid, pipe, nuked>>

\* wait() returns the syscall-entry-stop of execve(file, args); errcode is
\* the error the call fails with, 0 when the image is replaced.
C_exec ==
    /\ ~crashed /\ pc = "s_wait" /\ lock = "none"
    /\ \E p \in Pids, f \in Files, a \in Args, e \in ExecErrors :
         LET evs == procs[tracees[p].process].events
         IN /\ InUserMode(p)
            /\ Len(evs) < MaxLog
            /\ Len(evs) > 0 => Len(evs[Len(evs)].calls) < MaxCalls
            /\ Finish(Tracer_handle_stopped(Now, p,
                         [NoStop EXCEPT !.syscall = SYSCALL_EXECVE,
                                        !.a = <<f, a, e>>]),
                      "exec", p, <<e>>)
    /\ UNCHANGED <<rpc, rpid, pipe, nuked>>

\* wait() returns the syscall-entry-stop of a call that stays in flight
\* while the tracee runs on: ptrace (banned), the fake call that reports a
\* source location, or a call the tracer has no handler for.
C_entry ==
    /\ ~crashed /\ pc = "s_wait" /\ lock = "none"
    /\ \E p \in Pids, nr \in PlainCalls,
          l \in Locations :
         /\ InUserMode(p)
         /\ Finish(Tracer_handle_stopped(
                      [S |-> Here, K |-> [os EXCEPT ![p].sys = nr]], p,
                      [NoStop EXCEPT !.syscall = nr, !.a = <<l>>]),
                   "entry", p, <<nr>>)
    /\ UNCHANGED <<rpc, rpid, pipe, nuked>>

\* wait() returns the syscall-exit-stop of such a call.
C_exit ==
    /\ ~crashed /\ pc = "s_wait" /\ lock = "none"
    /\ \E p \in Pids :
         /\ os[p].st = "live" /\ tracees[p].state = "RUNNING"
         /\ os[p].sys \in PlainCalls
         /\ tracees[p].syscall = os[p].sys
         /\ LET X == Tracer_handle_stopped(Now, p, NoStop)
            IN Finish([X EXCEPT !.K = Returned(@, p)],
                      "exit", p, <<os[p].sys>>)
    /\ UNCHANGED <<rpc, rpid, pipe, nuked>>

\* The stops of a tracee whose record is out of step with the kernel (an
\* entry-stop taken for an exit-stop) are left out.  The wait calls are
\* run in SpecCalls and the calls that send, exec or stay in flight in
\* SpecKill.
NextCalls ==
    \/ C_start
    \/ Step_lock
    \/ Step_begin
    \/ Step_wait_ended
    \/ C_fork
    \/ Step_collect
    \/ T_exit
    \/ C_store
    \/ C_wait4_entry
    \/ C_waitid_entry
    \/ C_wait_exit

NextKill ==
    \/ C_start
    \/ Step_lock
    \/ Step_begin
    \/ Step_wait_ended
    \/ C_fork
    \/ Step_collect
    \/ T_exit
    \/ C_kill
    \/ C_exec
    \/ C_entry
    \/ C_exit

SpecCalls == Init /\ [][NextCalls]_vars

SpecKill == Init /\ [][NextKill]_vars


(***************************************************************************)
(* C25: when a tracee passes NULL as the result pointer of wait4 or        *)
(* waitid, then once the exit-stop of the call is finalised every byte of  *)
(* the scratch region holds the value it had before the entry-stop was     *)
(* handled.  call.arg[3] is the region as it was before the entry-stop.    *)
(***************************************************************************)
C25_ScratchRestored ==
    [][\A p \in Pids :
          (/\ call.op \in {"wait4_entry", "waitid_entry"} /\ call.n = p
           /\ call.arg[1] = "null"
           /\ call'.op = "wait_exit" /\ call'.n = p)
          => os'[p].mem.scratch = call.arg[3]]_vars


(***************************************************************************)
(* C24: if reading the tracee's memory faults while a wait is prepared,    *)
(* the wait proceeds unobserved: no WaitEvent is appended for it, and the  *)
(* finalising of its exit-stop raises no error and modifies no event of    *)
(* the process's log.  A call whose prepare faulted has neither a result   *)
(* address nor saved data.                                                 *)
(***************************************************************************)
C24_FaultUnobserved ==
    [][\A p \in Pids :
          /\ (/\ call'.op \in {"wait4_entry", "waitid_entry"} /\ call'.n = p
              /\ call' # call /\ call'.arg[2])
             => /\ thrown' = "none" /\ ~crashed'
                /\ procs' = procs
          /\ (/\ tracees[p].blockingCall /\ tracees[p].wait.result = "null"
              /\ os[p].sys # SYSCALL_NONE /\ os'[p].sys = SYSCALL_NONE
              /\ call'.op = "wait_exit" /\ call'.n = p)
             => /\ thrown' = "none" /\ ~crashed'
                /\ procs'[tracees[p].process].events
                      = procs[tracees[p].process].events]_vars


(***************************************************************************)
(* C22: the (idtype, id) pair of a waitid is recorded in the wait-id       *)
(* encoding, P_ALL as -1, P_PID as id and P_PGID as -id; a waitid with any *)
(* other idtype is recorded with a value whose call fails with EINVAL, and *)
(* its WaitEvent never becomes a ReapEvent.  call'.arg[4] is the selector  *)
(* the tracee passed.                                                      *)
(***************************************************************************)
C22_WaitIdEncoding ==
    [][\A p \in Pids :
          LET n == tracees[p].process
              new == procs'[n].events
              a == call'.arg[4]
              w == tracees[p].wait
          IN /\ (/\ call'.op = "waitid_entry" /\ call'.n = p /\ call' # call
                 /\ ~call'.arg[2] /\ thrown' = "none" /\ ~crashed')
                => /\ new # <<>>
                   /\ new[Len(new)].type = "Wait"
                   /\ new[Len(new)].waitedId =
                        (IF a.idtype = P_ALL THEN -1
                         ELSE IF a.idtype = P_PID THEN a.id
                         ELSE IF a.idtype = P_PGID THEN -a.id
                         ELSE PID_T_MAX)
             /\ (/\ call'.op = "wait_exit" /\ call'.n = p
                 /\ tracees[p].blockingCall /\ ~tracees'[p].blockingCall
                 /\ w.kind = "waitid" /\ w.result # "null"
                 /\ os[p].args.idtype \notin {P_ALL, P_PID, P_PGID})
                => /\ call'.arg[1] = -EINVAL
                   /\ LastWait(new) > 0
                   /\ new[LastWait(new)].type = "Wait"
                   /\ new[LastWait(new)].waitedId = PID_T_MAX
                   /\ new[LastWait(new)].error = EINVAL]_vars

C22_Witness ==
    /\ call.op = "wait_exit" /\ thrown = "none" /\ ~crashed
    /\ \E n \in 1..Len(procs) : \E i \in 1..Len(procs[n].events) :
         /\ procs[n].events[i].type = "Wait"
         /\ procs[n].events[i].waitedId = PID_T_MAX
         /\ procs[n].events[i].error = EINVAL


(***************************************************************************)
(* C23: the driver takes the syscall-stops of a tracee alternately as      *)
(* entry-stop and exit-stop: a tracee that runs after the exit-stop of its *)
(* call was handled (the kernel has no call of it in flight) has no        *)
(* recorded syscall and no BlockingCall, also when the handler threw.      *)
(***************************************************************************)
C23_Alternation ==
    \A p \in Pids :
        (/\ InMap(tracees, p) /\ tracees[p].state = "RUNNING"
         /\ os[p].st = "live" /\ os[p].sys = SYSCALL_NONE)
        => /\ tracees[p].syscall = SYSCALL_NONE
           /\ ~tracees[p].blockingCall


(***************************************************************************)
(* C27: when a tracee kills itself with SIGKILL (target 0, its own pid or  *)
(* its own group), handle_kill returns normally, the log of the process    *)
(* ends with the Raise for that send followed by the fatal                 *)
(* SignalEvent(SIGKILL, killed), and the Tracee is marked DEAD, for a      *)
(* leader as for any other tracee.                                         *)
(***************************************************************************)
C27_SelfKill ==
    [][\A p \in Pids :
          LET n == tracees[p].process
              old == procs[n].events
              new == procs'[n].events
          IN (/\ call'.op = "kill" /\ call'.n = p
              /\ call'.arg[2] = SIGKILL
              /\ call'.arg[1] \in {0, p, -os[p].pg}
              /\ os[p].st = "live" /\ os'[p].st # "live")
             => /\ thrown' = "none" /\ ~crashed'
                /\ Len(new) = Len(old) + 2
                /\ SubSeq(new, 1, Len(old)) = old
                /\ new[Len(old) + 1].type = "Raise"
                /\ new[Len(old) + 1].killedId = call'.arg[1]
                /\ new[Len(old) + 1].signal = SIGKILL
                /\ new[Len(new)].type = "Signal"
                /\ new[Len(new)].signal = SIGKILL
                /\ new[Len(new)].killed
                /\ InMap(tracees', p)
                /\ tracees'[p].state = "DEAD"]_vars


(***************************************************************************)
(* SpecCopy: the three helpers of ptrace.cpp that move bytes between the   *)
(* tracer and a tracee, applied to every length up to MaxCopyLen.  call    *)
(* holds the last application: n is len, arg is <<the destination before,  *)
(* the source (the value for memset_tracee), the destination after>>.      *)
(***************************************************************************)
MaxCopyLen == 17    \* the longest len: two words and one byte

\* A region of the tracee's memory that holds every word the helpers touch.
MemLen == ALIGNED_ROUND_UP(MaxCopyLen) + WORD_SIZE

\* Contents of a run of n bytes: all equal, or each byte different.
Contents(n) == {Bytes(n, 0), Bytes(n, 255), [i \in 1..n |-> i]}

M_copy_from_tracee ==
    /\ ~crashed
    /\ \E len \in 1..MaxCopyLen :
         \E dest \in Contents(len), src \in Contents(MemLen) :
            Note("copy_from_tracee", len,
                 <<dest, src, copy_from_tracee(dest, src, len)>>)
    /\ UNCHANGED <<procs, thrown, crashed, tracerVars, diagram>>

M_copy_to_tracee ==
    /\ ~crashed
    /\ \E len \in 1..MaxCopyLen :
         \E dest \in Contents(MemLen), src \in Contents(len) :
            Note("copy_to_tracee", len,
                 <<dest, src, copy_to_tracee(dest, src, len)>>)
    /\ UNCHANGED <<procs, thrown, crashed, tracerVars, diagram>>

M_memset_tracee ==
    /\ ~crashed
    /\ \E len \in 1..MaxCopyLen :
         \E dest \in Contents(MemLen), value \in {0, 255} :
            Note("memset_tracee", len,
                 <<dest, value, memset_tracee(dest, value, len)>>)
    /\ UNCHANGED <<procs, thrown, crashed, tracerVars, diagram>>

NextCopy ==
    \/ M_copy_from_tracee
    \/ M_copy_to_tracee
    \/ M_memset_tracee

SpecCopy == InitProc /\ [][NextCopy]_vars

(***************************************************************************)
(* C37: for every len >= 1 copy_from_tracee places exactly the len bytes   *)
(* found at the source address into the destination buffer, for a len that *)
(* is a multiple of the word size as for a len with a remainder.           *)
(***************************************************************************)
C37_CopyFrom ==
    call.op = "copy_from_tracee"
    => /\ Len(call.arg[3]) = call.n
       /\ \A i \in 1..call.n : call.arg[3][i] = call.arg[2][i]

(***************************************************************************)
(* C38: copy_to_tracee and memset_tracee with length len change exactly    *)
(* the len bytes from the destination address on; the bytes of the         *)
(* trailing word beyond len, and all bytes after it, keep their values.    *)
(***************************************************************************)
C38_WriteExactly ==
    /\ call.op = "copy_to_tracee"
       => /\ Len(call.arg[3]) = Len(call.arg[1])
          /\ \A i \in 1..Len(call.arg[1]) :
               call.arg[3][i] = IF i <= call.n THEN call.arg[2][i]
                                ELSE call.arg[1][i]
    /\ call.op = "memset_tracee"
       => /\ Len(call.arg[3]) = Len(call.arg[1])
          /\ \A i \in 1..Len(call.arg[1]) :
               call.arg[3][i] = IF i <= call.n THEN call.arg[2]
                                ELSE call.arg[1][i]

C38_Witness ==
    /\ call.op = "copy_to_tracee"
    /\ call.n % WORD_SIZE # 0 /\ call.n > WORD_SIZE
    /\ call.arg[1] = [i \in 1..MemLen |-> i]
    /\ call.arg[2] = Bytes(call.n, 255)
    /\ call.arg[3][call.n] = 255
    /\ call.arg[3][call.n + 1] = call.n + 1


(***************************************************************************)
(* C39: at all times a process node is in state REAPED if and only if      *)
(* exactly one ReapEvent, in the log of some process, names it as the      *)
(* reaped child; a notify_reaped that throws ProcessTreeError therefore    *)
(* does not leave the child REAPED.                                        *)
(***************************************************************************)
ReapsOf(c) ==
    {x \in (1..Len(procs)) \X (1..MaxEvents + MaxLog + 2) :
        /\ x[2] <= Len(procs[x[1]].events)
        /\ procs[x[1]].events[x[2]].type = "Reap"
        /\ procs[x[1]].events[x[2]].child = c}

C39_ReapedIffReapEvent ==
    ~crashed =>
       \A c \in 1..Len(procs) :
           procs[c].state = REAPED <=> Cardinality(ReapsOf(c)) = 1


(***************************************************************************)
(* C40: while the lines of a diagram are built, no pending-kill-partner    *)
(* assertion fails, whatever event logs were recorded: the killPartner of  *)
(* a path is null when _get_next_event finds a KillEvent as its next       *)
(* event, and a kill side that finds its own killPartner cleared finds     *)
(* its peer's killPartner null too.                                        *)
(***************************************************************************)
C40_KillPartnerAsserts ==
    (~crashed /\ diagram.pc = "build" /\ diagram.numLines > 0) =>
        ~build_next_line.killBad


\* The loop of _draw_line over the nodes of a line from its k-th node on,
\* as far as curEvent goes: curEvent is <<process, event>> of the link that
\* is open, <<>> for nullptr.  TRUE when assert(!curEvent) fails.
RECURSIVE draw_line(_, _, _)
draw_line(line, k, curEvent) ==
    IF k > Len(line) THEN FALSE
    ELSE
    LET node == line[k]
        link == procs[curEvent[1]].events[curEvent[2]]
        event == procs[node.process].events[node.event]
    IN  IF curEvent # <<>> /\ linked_path(link) = node.process
        THEN draw_line(line, k + 1, <<>>)
        ELSE IF node.event # 0 /\ LinkEvent(event)
        THEN \/ curEvent # <<>>
             \/ draw_line(line, k + 1, <<node.process, node.event>>)
        ELSE draw_line(line, k + 1, curEvent)

(***************************************************************************)
(* C31: in every line that is built no node of a link event lies between   *)
(* the node that starts a horizontal link and the node of the process the  *)
(* link ends on, so that _draw_line never starts a link while another one  *)
(* is open (its assertion !curEvent holds).                                *)
(***************************************************************************)
C31_NoOverlappingLinks ==
    (~crashed /\ diagram.pc = "build" /\ diagram.numLines > 0) =>
        ~draw_line(diagram.line, 1, <<>>)


(***************************************************************************)
(* SpecLinks: the trees of up to MaxLinkProcs live processes recorded by   *)
(* forks and sent signals only, and the Diagram built of them.             *)
(***************************************************************************)
MaxLinkProcs == 4

K_notify_forked ==
    /\ Recording /\ Len(procs) < MaxLinkProcs
    /\ \E n \in Nodes :
         /\ Running(n) /\ TreeRoom(n, 1)
         /\ LET c == Len(procs) + 1
            IN Record(notify_forked(Append(procs, Process(c, n)), n, c))

NextLinks ==
    \/ K_notify_forked
    \/ D_notify_sent_signal
    \/ D_redraw
    \/ D_start_path
    \/ D_build_next_line
    \/ D_allocate_process_to_lane
    \/ D_destroy

SpecLinks == InitProc /\ [][NextLinks]_vars


\* Diagram::_lines of a diagram whose loop in redraw has ended: the first
\* line and the lines _build_next_line appends to it.  The lines are built
\* of the logs and the options alone.
RECURSIVE build_lines(_, _, _)
build_lines(paths, prevLine, lineNum) ==
    LET L == build_line([paths |-> paths, cur |-> <<>>, eventEnd |-> 0,
                         bad |-> FALSE, killBad |-> FALSE],
                        lineNum, prevLine, 1)
    IN IF L.cur = <<>> THEN <<>>
       ELSE <<L.cur>> \o build_lines(L.paths, L.cur, lineNum + 1)

lines ==
    LET paths == [n \in Nodes |-> IF n = 1 THEN Path(0) ELSE NoPath]
        s == start_path([paths |-> paths, cur |-> <<>>, eventEnd |-> 0,
                         bad |-> FALSE, killBad |-> FALSE], 1)
    IN <<<<s.node>>>> \o build_lines(s.L.paths, <<s.node>>, 1)

Finished == ~crashed /\ diagram.pc = "done" /\ diagram.numLines < MaxLines

(***************************************************************************)
(* C32: in every line of a finished diagram the lanes of the nodes, in     *)
(* the order the line stores them, are strictly ascending.                 *)
(***************************************************************************)
C32_LanesAscending ==
    Finished =>
        \A l \in 1..Len(lines) : \A k \in 1..Len(lines[l]) - 1 :
            diagram.paths[lines[l][k].process].lane
                < diagram.paths[lines[l][k + 1].process].lane


\* A finished diagram with a line of three nodes, in lanes 0, 1 and 2.
C32_Witness ==
    /\ Finished
    /\ \E l \in 1..Len(lines) :
         /\ Len(lines[l]) = 3
         /\ \A k \in 1..3 : diagram.paths[lines[l][k].process].lane = k - 1


\* The children of n in the order n forked them.
Children(n) ==
    LET F == SelectSeq(procs[n].events, LAMBDA e : e.type = "Fork")
    IN [i \in 1..Len(F) |-> F[i].child]

\* The paths of a and b overlap in time.
Overlap(a, b) ==
    /\ HasPath(diagram.paths, a) /\ HasPath(diagram.paths, b)
    /\ Collides(diagram.paths, a, b)

(***************************************************************************)
(* C33 as stated: of two children of one parent whose paths overlap in     *)
(* time, the one forked later is in the higher lane.                       *)
(***************************************************************************)
C33_LaterForkRight ==
    Finished =>
        \A n \in Nodes : \A i, j \in 1..Len(Children(n)) :
            (i < j /\ Overlap(Children(n)[i], Children(n)[j])) =>
                diagram.paths[Children(n)[i]].lane
                    < diagram.paths[Children(n)[j]].lane

(***************************************************************************)
(* C33 amended: of two children of one parent whose paths overlap in       *)
(* time, the one forked later is in the lower lane (nearer its parent);    *)
(* the child forked earlier is further right.                              *)
(***************************************************************************)
C33_EarlierForkRight ==
    Finished =>
        \A n \in Nodes : \A i, j \in 1..Len(Children(n)) :
            (i < j /\ Overlap(Children(n)[i], Children(n)[j])) =>
                diagram.paths[Children(n)[i]].lane
                    > diagram.paths[Children(n)[j]].lane

\* A finished diagram of a parent with two children whose paths overlap.
C33_Witness ==
    /\ Finished
    /\ \E n \in Nodes :
         /\ Len(Children(n)) = 2
         /\ Overlap(Children(n)[1], Children(n)[2])
         /\ diagram.paths[Children(n)[1]].lane = 2
         /\ diagram.paths[Children(n)[2]].lane = 1


(***************************************************************************)
(* SpecFork: the driver with tracees whose fork calls succeed or fail.     *)
(* A fork that fails reaches its syscall-exit-stop without a fork event,   *)
(* or the tracee is killed inside the call.                                *)
(***************************************************************************)
ERESTARTNOINTR == 513

\* The errors of a fork: the restart after a signal, EAGAIN and ENOMEM.
ForkErrors == {ERESTARTNOINTR, 11, 12}

\* What follows the entry-stop of a fork that creates no child: the
\* exit-stop with rax = -error ("exit"), the exit-stop of a tracee that is
\* killed before its registers are read ("gone"), or the tracee's end
\* inside the call ("ended").
ForkStops == {[kind |-> "exit", rax |-> -e] : e \in ForkErrors}
             \cup {[kind |-> k, rax |-> 0] : k \in {"gone", "ended"}}

Killed == [exited |-> FALSE, code |-> SIGKILL]

\* handle_failed_fork that takes every failure for an interrupted fork.
handle_failed_fork_resumes(S, p, stop) ==
    IF stop.kind = "gone" THEN handle_ended(S, p, Killed)
    ELSE [S EXCEPT !.T[p] = resume(@)]

\* _exit(1) is the err "exit".
handle_failed_fork(S, p, stop) ==
    IF stop.kind = "gone" THEN handle_ended(S, p, Killed)
    ELSE IF -stop.rax = ERESTARTNOINTR THEN [S EXCEPT !.T[p] = resume(@)]
    ELSE [S EXCEPT !.err = "exit"]

\* handle_syscall_entry and handle_fork for a fork whose next stop is not
\* a fork event.
handle_fork_without_event(S, p, stop) ==
    LET S1 == [S EXCEPT !.T[p] = resume([@ EXCEPT !.syscall = SYSCALL_FORK])]
    IN IF stop.kind = "ended" THEN handle_ended(S1, p, Killed)
       ELSE handle_failed_fork(
               [S1 EXCEPT !.T[p].state = "STOPPED",
                          !.T[p].syscall = SYSCALL_NONE], p, stop)

\* wait() returns the syscall-entry-stop of a fork that fails.
F_failed_fork ==
    /\ ~crashed /\ pc = "s_wait" /\ lock = "none"
    /\ \E p \in Pids, stop \in ForkStops :
         /\ InUserMode(p)
         /\ LET S == handle_fork_without_event(
                        [Here EXCEPT !.T[p].state = "STOPPED"], p, stop)
            IN /\ Commit(S)
               /\ Note("handle_fork", p, <<stop.kind, stop.rax>>)
               /\ os' = IF stop.kind = "exit" THEN os
                        ELSE Consumed(Die(os, {p}, "killed"), p)
               /\ IF S.err = "exit"
                  THEN pc' = "_exit(1)" /\ Calm
                       /\ UNCHANGED <<lock, stepRet>>
                  ELSE IF S.err = "ok"
                  THEN pc' = "s_collect" /\ lock' = "driver" /\ Calm
                       /\ UNCHANGED stepRet
                  ELSE Leave(S)
    /\ UNCHANGED <<rpc, rpid, pipe, nuked>>

NextFork ==
    \/ Start
    \/ Step_lock
    \/ Step_begin
    \/ Step_wait_ended
    \/ Step_wait_fork
    \/ Step_collect
    \/ T_exit
    \/ F_failed_fork

SpecFork == Init /\ [][NextFork]_vars

(***************************************************************************)
(* C35: when a fork reaches its syscall-exit-stop without a fork event     *)
(* and returns -ERESTARTNOINTR, no event is recorded, the tracee's syscall *)
(* is SYSCALL_NONE again and the tracee is resumed, so that it is in the   *)
(* state in which the entry-stop of the restarted fork is dispatched; for  *)
(* every other error the tracer process exits.                             *)
(***************************************************************************)
C35_FailedFork ==
    [][\A p \in Pids :
          (/\ call' # call /\ call'.op = "handle_fork" /\ call'.n = p
           /\ call'.arg[1] = "exit")
          => IF -call'.arg[2] = ERESTARTNOINTR
             THEN /\ procs' = procs
                  /\ tracees'[p] = [tracees[p] EXCEPT !.signal = 0]
                  /\ tracees'[p].syscall = SYSCALL_NONE
                  /\ tracees'[p].state = "RUNNING"
                  /\ os' = os
                  /\ thrown' = "none" /\ pc' = "s_collect"
             ELSE pc' = "_exit(1)"]_vars

\* An interrupted fork of a process that has not forked yet was handled:
\* the tracee runs on and the driver goes on with its step.
C35_Witness ==
    /\ call.op = "handle_fork" /\ call.arg = <<"exit", -ERESTARTNOINTR>>
    /\ pc = "s_collect" /\ InMap(tracees, call.n)
    /\ tracees[call.n].state = "RUNNING"
    /\ tracees[call.n].syscall = SYSCALL_NONE
    /\ procs[tracees[call.n].process].events # <<>>
    /\ \A i \in 1..Len(procs[tracees[call.n].process].events) :
          procs[tracees[call.n].process].events[i].type # "Fork"


(***************************************************************************)
(* SpecStart: Tracer::start step by step.  The leader is attached, then    *)
(* each pass of the loop resumes it and handles what waitpid returns: a    *)
(* signal-delivery-stop, the entry-stop of an execve that succeeds or      *)
(* fails, or the leader's end.  call.n is the local variable pid of        *)
(* start() while it runs (pc = "start").                                   *)
(***************************************************************************)
StartStops ==
    {[kind |-> "signal", a |-> <<s>>] : s \in {SIGTERM, SIGTTIN}}
    \cup {[kind |-> "exec", a |-> <<f, a, e>>] :
             f \in Files, a \in Args, e \in ExecErrors}
    \cup {[kind |-> k, a |-> <<>>] : k \in {"exited", "killed", "ESRCH"}}

\* Tracer::start up to its loop (tracer.cpp:980-985).
St_start ==
    /\ ~crashed /\ pc = "idle" /\ ~nuked
    /\ acquire("driver")
    /\ all_tracees_dead(tracees)
    /\ Len(procs) < MaxTracees
    /\ \E pid \in FreePids :
         LET S0 == [Here EXCEPT !.P = Append(@, Process(pid, 0)),
                                !.L = @ \cup {pid}]
         IN  /\ Commit(add_tracee(S0, pid, Len(procs) + 1))
             /\ Note("start", pid, <<"loop">>)
             /\ os' = [os EXCEPT ![pid] = [FreeSlot EXCEPT
                                             !.st = "live", !.pg = pid]]
    /\ pc' = "start" /\ Calm
    /\ UNCHANGED <<stepRet, rpc, rpid, pipe, nuked>>

\* A pass of the loop that takes every exec that was handled for the
\* leader's exec.
start_pass_any_exec(X, pid, stop) ==
    IF ~InMap(X.S.T, pid) THEN [X |-> X, out |-> "runtime_error"]
    ELSE IF stop.kind = "ESRCH"
    THEN [X |-> [X EXCEPT !.S = handle_ended(X.S, pid, Killed)],
          out |-> "runtime_error"]
    ELSE
    LET X1 == [X EXCEPT !.S.T[pid] = resume(@)]
    IN  IF stop.kind = "signal"
        THEN [X |-> [X1 EXCEPT !.S = handle_stop(X1.S, pid,
                        [kind |-> "signal", arg |-> stop.a[1]])],
              out |-> "loop"]
        ELSE IF stop.kind = "exec"
        THEN [X |-> Tracer_handle_stopped(X1, pid,
                       [NoStop EXCEPT !.syscall = SYSCALL_EXECVE,
                                      !.a = stop.a]),
              out |-> "return"]
        ELSE [X |-> [X1 EXCEPT !.S = handle_ended(X1.S, pid,
                        IF stop.kind = "exited"
                        THEN [exited |-> TRUE, code |-> 0] ELSE Killed)],
              out |-> "loop"]

\* One pass of the loop of start (tracer.cpp:987-1006).  out is "loop",
\* "return" (leader.execed was set) or "runtime_error".
start_pass(X, pid, stop) ==
    IF ~InMap(X.S.T, pid) THEN [X |-> X, out |-> "runtime_error"]
    ELSE IF stop.kind = "ESRCH"
    THEN [X |-> [X EXCEPT !.S = handle_ended(X.S, pid, Killed)],
          out |-> "runtime_error"]
    ELSE
    LET X1 == [X EXCEPT !.S.T[pid] = resume(@)]
    IN  IF stop.kind = "signal"
        THEN [X |-> [X1 EXCEPT !.S = handle_stop(X1.S, pid,
                        [kind |-> "signal", arg |-> stop.a[1]])],
              out |-> "loop"]
        ELSE IF stop.kind = "exec"
        THEN [X |-> Tracer_handle_stopped(X1, pid,
                       [NoStop EXCEPT !.syscall = SYSCALL_EXECVE,
                                      !.a = stop.a]),
              out |-> IF stop.a[3] = 0 /\ pid \in X1.S.L
                      THEN "return" ELSE "loop"]
        ELSE [X |-> [X1 EXCEPT !.S = handle_ended(X1.S, pid,
                        IF stop.kind = "exited"
                        THEN [exited |-> TRUE, code |-> 0] ELSE Killed)],
              out |-> "loop"]

\* What the kernel holds of pid after the stop.
AfterStop(K, pid, stop) ==
    IF K[pid].st # "live" \/ stop.kind \in {"signal", "exec"} THEN K
    ELSE Consumed(Die(K, {pid},
                      IF stop.kind = "exited" THEN "exited" ELSE "killed"),
                  pid)

St_pass ==
    /\ ~crashed /\ pc = "start"
    /\ \E stop \in StartStops :
         LET pid == call.n
             evs == procs[tracees[pid].process].events
             r == start_pass(Now, pid, stop)
         IN /\ InMap(tracees, pid) =>
                  /\ os[pid].st = "live"
                  /\ stop.kind = "signal" => SignalRoom(tracees[pid].process)
                  /\ stop.kind = "exec" =>
                       /\ Len(evs) < MaxLog
                       /\ Len(evs) > 0 => Len(evs[Len(evs)].calls) < MaxCalls
                  /\ stop.kind \in {"exited", "killed"} => Len(evs) < MaxLog
            /\ Commit(r.X.S) /\ os' = AfterStop(r.X.K, pid, stop)
            /\ IF r.X.S.err # "ok" THEN Leave(r.X.S) /\ call' = call
               ELSE /\ Note("start", pid, <<r.out>>)
                    /\ errPid' = 0 /\ crashed' = FALSE /\ diagram' = diagram /\ bg' = bg
                    /\ thrown' = IF r.out = "runtime_error" THEN r.out
                                 ELSE "none"
                    /\ IF r.out = "loop"
                       THEN pc' = "start" /\ UNCHANGED <<lock, stepRet>>
                       ELSE /\ pc' = "idle" /\ lock' = "none"
                            /\ stepRet' = IF r.out = "return" THEN stepRet
                                          ELSE "threw"
    /\ UNCHANGED <<rpc, rpid, pipe, nuked>>

NextStart ==
    \/ St_start
    \/ St_pass
    \/ Step_lock
    \/ Step_begin
    \/ Step_wait_ended
    \/ Step_collect
    \/ T_exit

SpecStart == Init /\ [][NextStart]_vars

\* The last ExecEvent of the log ends with an attempt that succeeded.
Execed(evs) ==
    /\ evs # <<>> /\ evs[Len(evs)].type = "Exec"
    /\ evs[Len(evs)].calls[Len(evs[Len(evs)].calls)].errcode = 0

(***************************************************************************)
(* C34: start() returns only when the leader's first successful exec has   *)
(* been recorded: the leader's log ends with an ExecEvent whose last       *)
(* attempt has errcode 0.  When the leader has ended while start() runs,   *)
(* the leader is not in the tracee map, and start() leaves only by         *)
(* throwing.                                                               *)
(***************************************************************************)
C34_StartReturnsAfterExec ==
    [][pc = "start" =>
         LET pid == call.n
         IN /\ (pc' = "idle" /\ thrown' = "none") =>
                 /\ InMap(tracees, pid) /\ InMap(tracees', pid)
                 /\ Execed(procs'[tracees'[pid].process].events)
                 /\ \A i \in 1..Len(procs[tracees[pid].process].events) :
                       LET ev == procs[tracees[pid].process].events[i]
                       IN ev.type = "Exec" => ~succeeded(ev)
            /\ os'[pid].st # "live" =>
                 /\ ~InMap(tracees', pid)
                 /\ pc' = "idle" => thrown' # "none"]_vars

\* start() has returned for a leader whose second attempt to exec
\* succeeded, after it had failed for a leader that ended before its exec.
C34_Witness ==
    /\ pc = "idle" /\ call.op = "start" /\ call.arg = <<"return">>
    /\ thrown = "none" /\ InMap(tracees, call.n)
    /\ LET evs == procs[tracees[call.n].process].events
       IN Execed(evs) /\ Len(evs[Len(evs)].calls) = 2
    /\ \E n \in Nodes :
         /\ procs[n].state # ALIVE /\ procs[n].parent = 0
         /\ \A i \in 1..Len(procs[n].events) : procs[n].events[i].type # "Exec"


(***************************************************************************)
(* SpecJoin: the two background threads of forktrace() and their           *)
(* cancellation (forktrace.cpp:86-118, 200-229, 754-761).  bg.main is the  *)
(* main thread's position in join_sigwaiter and join_reaper, bg.sigwaiter  *)
(* the position of signal_thread, rpc that of reaper_thread ("blocked":    *)
(* asleep in a read() that found the pipe empty), bg.SIGINT a SIGINT       *)
(* pending for the process, bg.SIGUSR1 one pending for the reader thread.  *)
(* bg.saw holds the threads that have read gDone as true.  The user        *)
(* presses Ctrl+C and the reaper process writes pids at any time.          *)
(***************************************************************************)
MaxOrphans == 2

\* signal_thread after sigwait has returned (forktrace.cpp:91-95), and
\* one that does not look at gDone.
after_sigwait_ignores(gDone) == "nuke"

after_sigwait(gDone) == IF gDone THEN "returned" ELSE "nuke"

\* reaper_thread after fread has returned a pid (forktrace.cpp:112-116).
after_fread(gDone) == IF gDone THEN "done" ELSE "lock"

Saw(who, gDone) == IF gDone THEN bg.saw \cup {who} ELSE bg.saw

JoinUnchanged ==
    UNCHANGED <<procs, thrown, crashed, call, diagram, tracees, leaders,
                recycledPIDs, pc, stepRet, os, errPid>>

\* Ctrl+C: the terminal sends SIGINT to the process, where it is blocked
\* in every thread and stays pending until sigwait takes it.
J_user_SIGINT ==
    /\ bg.main # "joined" /\ ~bg.SIGINT
    /\ bg' = [bg EXCEPT !.SIGINT = TRUE]
    /\ JoinUnchanged /\ UNCHANGED <<rpc, rpid, pipe, orphans, lock, nuked>>

\* The reaper process writes the pid of an orphan it has reaped.
J_write ==
    /\ bg.main # "joined" /\ Len(pipe) + Len(orphans) < MaxOrphans
    /\ pipe' = Append(pipe, 1)
    /\ JoinUnchanged /\ UNCHANGED <<rpc, rpid, orphans, lock, nuked, bg>>

\* sigwait returns with the pending SIGINT.
J_sigwait ==
    /\ bg.sigwaiter = "sigwait" /\ bg.SIGINT
    /\ bg' = [bg EXCEPT !.SIGINT = FALSE, !.sigwaiter = "check"]
    /\ JoinUnchanged /\ UNCHANGED <<rpc, rpid, pipe, orphans, lock, nuked>>

\* if (gDone) return;
J_sigwaiter_check ==
    /\ bg.sigwaiter = "check"
    /\ bg' = [bg EXCEPT !.sigwaiter = after_sigwait(bg.gDone),
                        !.saw = Saw("sigwaiter", bg.gDone)]
    /\ JoinUnchanged /\ UNCHANGED <<rpc, rpid, pipe, orphans, lock, nuked>>

\* tracer.nuke(), which takes the mutex and releases it.
J_nuke ==
    /\ bg.sigwaiter = "nuke" /\ lock = "none"
    /\ nuked' = TRUE
    /\ bg' = [bg EXCEPT !.sigwaiter = "sigwait"]
    /\ JoinUnchanged /\ UNCHANGED <<rpc, rpid, pipe, orphans, lock>>

\* fread finds a pid in the pipe, also when it was asleep for it.
J_fread ==
    /\ rpc \in {"read", "blocked"} /\ pipe # <<>>
    /\ rpid' = Head(pipe) /\ pipe' = Tail(pipe) /\ rpc' = "check"
    /\ JoinUnchanged /\ UNCHANGED <<orphans, lock, nuked, bg>>

\* read() finds the pipe empty: it sleeps, or fails with EAGAIN when the
\* descriptor is O_NONBLOCK, and then fread returns 0.
J_read_empty ==
    /\ rpc = "read" /\ pipe = <<>>
    /\ rpc' = IF bg.O_NONBLOCK THEN "done" ELSE "blocked"
    /\ JoinUnchanged /\ UNCHANGED <<rpid, pipe, orphans, lock, nuked, bg>>

\* SIGUSR1 is delivered to the reader thread: the handler does nothing,
\* and a read() it interrupts fails with EINTR (no SA_RESTART).
J_SIGUSR1 ==
    /\ bg.SIGUSR1 /\ rpc # "done"
    /\ bg' = [bg EXCEPT !.SIGUSR1 = FALSE]
    /\ rpc' = IF rpc = "blocked" THEN "done" ELSE rpc
    /\ JoinUnchanged /\ UNCHANGED <<rpid, pipe, orphans, lock, nuked>>

\* if (gDone) break;
J_reader_check ==
    /\ rpc = "check"
    /\ rpc' = after_fread(bg.gDone)
    /\ bg' = [bg EXCEPT !.saw = Saw("reader", bg.gDone)]
    /\ JoinUnchanged /\ UNCHANGED <<rpid, pipe, orphans, lock, nuked>>

\* join_sigwaiter: gDone = true; kill(getpid(), SIGINT); sigwaiter.join().
J_join_sigwaiter ==
    /\ bg.main = "run"
    /\ bg' = [bg EXCEPT !.gDone = TRUE, !.main = "kill"]
    /\ JoinUnchanged /\ UNCHANGED <<rpc, rpid, pipe, orphans, lock, nuked>>

J_kill ==
    /\ bg.main = "kill"
    /\ bg' = [bg EXCEPT !.SIGINT = TRUE, !.main = "join_sigwaiter"]
    /\ JoinUnchanged /\ UNCHANGED <<rpc, rpid, pipe, orphans, lock, nuked>>

J_sigwaiter_joined ==
    /\ bg.main = "join_sigwaiter" /\ bg.sigwaiter = "returned"
    /\ bg' = [bg EXCEPT !.main = "join_reaper"]
    /\ JoinUnchanged /\ UNCHANGED <<rpc, rpid, pipe, orphans, lock, nuked>>

\* join_reaper: gDone = true and the fcntl calls, which may fail.
J_fcntl ==
    /\ bg.main = "join_reaper"
    /\ \E ok \in BOOLEAN :
         bg' = [bg EXCEPT !.gDone = TRUE, !.O_NONBLOCK = ok,
                          !.main = IF ok THEN "pthread_kill" ELSE "joined"]
    /\ JoinUnchanged /\ UNCHANGED <<rpc, rpid, pipe, orphans, lock, nuked>>

J_pthread_kill ==
    /\ bg.main = "pthread_kill"
    /\ bg' = [bg EXCEPT !.SIGUSR1 = (rpc # "done"), !.main = "join"]
    /\ JoinUnchanged /\ UNCHANGED <<rpc, rpid, pipe, orphans, lock, nuked>>

J_reaper_joined ==
    /\ bg.main = "join" /\ rpc = "done"
    /\ bg' = [bg EXCEPT !.main = "joined"]
    /\ JoinUnchanged /\ UNCHANGED <<rpc, rpid, pipe, orphans, lock, nuked>>

NextJoin ==
    \/ J_user_SIGINT
    \/ J_write
    \/ J_sigwait
    \/ J_sigwaiter_check
    \/ J_nuke
    \/ J_fread
    \/ J_read_empty
    \/ J_SIGUSR1
    \/ J_reader_check
    \/ R_lock
    \/ R_push
    \/ J_join_sigwaiter
    \/ J_kill
    \/ J_sigwaiter_joined
    \/ J_fcntl
    \/ J_pthread_kill
    \/ J_reaper_joined

SpecJoin == Init /\ [][NextJoin]_vars

\* The threads are scheduled, pending signals are delivered and the main
\* thread goes on; Ctrl+C and the reaper's writes may stop at any time.
SpecJoinFair ==
    /\ SpecJoin
    /\ WF_vars(J_sigwait) /\ WF_vars(J_sigwaiter_check) /\ WF_vars(J_nuke)
    /\ WF_vars(J_fread) /\ WF_vars(J_read_empty) /\ WF_vars(J_SIGUSR1)
    /\ WF_vars(J_reader_check) /\ WF_vars(R_lock) /\ WF_vars(R_push)
    /\ WF_vars(J_kill) /\ WF_vars(J_sigwaiter_joined) /\ WF_vars(J_fcntl)
    /\ WF_vars(J_pthread_kill) /\ WF_vars(J_reaper_joined)

(***************************************************************************)
(* C36: once gDone is set and SIGINT was sent, signal_thread returns; once *)
(* the pipe is O_NONBLOCK and SIGUSR1 was sent, reaper_thread returns,     *)
(* whatever the user's SIGINTs and the reads in flight; and a thread that  *)
(* has read gDone as true calls neither nuke() nor notify_orphan().        *)
(***************************************************************************)
C36_ThreadsTerminate ==
    /\ (bg.main = "join_sigwaiter") ~> (bg.sigwaiter = "returned")
    /\ (bg.main = "join") ~> (rpc = "done")
    /\ [][/\ (bg.sigwaiter = "nuke" /\ bg'.sigwaiter # "nuke")
             => "sigwaiter" \notin bg.saw
          /\ (rpc \in {"lock", "push"} /\ rpc' # rpc)
             => "reader" \notin bg.saw]_vars

\* Both threads were joined after a Ctrl+C was answered with nuke() and an
\* orphan was queued; the reader thread left through a failed fread.
C36_Witness ==
    /\ bg.main = "joined" /\ bg.O_NONBLOCK
    /\ bg.sigwaiter = "returned" /\ rpc = "done"
    /\ nuked /\ orphans # <<>>
    /\ bg.saw = {"sigwaiter"}

====
